---- MODULE Spec2Model ----
(***************************************************************************)
(* Model of circuitry-mcp-server: the tool-call dispatcher of              *)
(* src/src/server.ts (configuration check, liveness probe, permission     *)
(* gate, routing, result envelopes) and the EServerClient of               *)
(* src/src/index.ts (HTTP operations, the WebSocket call channel with its  *)
(* pendingRequests map, timeouts and the reconnect backoff).               *)
(*                                                                         *)
(* Eight specifications share the module:                                  *)
(*   Spec         the dispatcher: tool calls, each a sequence of steps     *)
(*                separated by the handler's awaits, against a Peer that   *)
(*                answers every request in any way HTTP allows;            *)
(*   SpecReconnect  the socket's life alone: connects, opens, closes, the  *)
(*                reconnect timers and disconnect;                         *)
(*   SpecChannel  the persistent channel of EServerClient: sockets, open / *)
(*                close events, inbound frames, calls, timers;             *)
(*   FairChannel  SpecChannel with the fairness Node's timer queue gives;  *)
(*   SpecConnect  one relayed call over the channel, with repeated         *)
(*                connects counted;                                        *)
(*   FairSpec     Spec with every awaited fetch settling;                  *)
(*   SpecFrames   one relayed call, prompt observers, and every kind of    *)
(*                inbound frame;                                           *)
(*   SpecLibrary  the client used as a library: any configuration file and *)
(*                environment, the client's construction, and the file     *)
(*                operations.                                              *)
(***************************************************************************)
EXTENDS Naturals, Integers, Sequences, FiniteSets, TLC

(***************************************************************************)
(* Bounds of the model.                                                    *)
(***************************************************************************)
\* tool calls that may be in progress at once (slots are reused)
MaxCalls == 1
\* callApi invocations on the channel
MaxApiCalls == 2
\* distinct request ids the id generator may produce
MaxIds == 2
\* socket objects alive at once
MaxSockets == 1
\* socket closes followed since the last successful open
MaxCloses == 7
\* reconnect timers pending at once
MaxTimers == 1
\* prompt observers registered
MaxHandlers == 2
\* successful opens followed
MaxOpens == 2
\* connectWebSocket invocations followed on a connected channel
MaxIdleConnects == 2
\* prompt handler invocations followed
MaxPromptLog == 2
\* pong frames followed
MaxPongs == 1
\* tool calls in progress at once where calls overlap
MaxOverlap == 2
\* socket objects alive at once where connects overlap
MaxLive == 2

Calls == 1 .. MaxCalls

(***************************************************************************)
(* JavaScript values, as far as the code distinguishes them.               *)
(***************************************************************************)
Undefined == [t |-> "undefined"]
Null == [t |-> "null"]
Str(s) == [t |-> "string", v |-> s]
Bool(b) == [t |-> "boolean", v |-> b]
Obj(r) == [t |-> "object", v |-> r]

\* JavaScript truthiness of a value: undefined, null, "" and false are falsy
Truthy(x) ==
  CASE x.t = "undefined" -> FALSE
    [] x.t = "null" -> FALSE
    [] x.t = "string" -> x.v # ""
    [] x.t = "boolean" -> x.v
    [] OTHER -> TRUE

\* a || b
OrElse(a, b) == IF Truthy(a) THEN a ELSE b

\* what a client operation hands back: a value, or a thrown Error(message)
Return(v) == [throw |-> FALSE, value |-> v]
Throw(m) == [throw |-> TRUE, message |-> m]

(***************************************************************************)
(* The Peer's answers to one HTTP request (fetch): a transport failure,    *)
(* a non-success status with a text body, or a success status with a JSON  *)
(* body.                                                                   *)
(***************************************************************************)
NetFail == [kind |-> "netfail", message |-> "fetch failed"]
HttpError == [kind |-> "status", status |-> "500", body |-> "boom"]
HttpOk(d) == [kind |-> "ok", data |-> d]

(***************************************************************************)
(* Configuration (config.ts): the persisted file and the environment       *)
(* overrides, and the client singleton built from them.                    *)
(***************************************************************************)
VARIABLES
  configFile,          \* ~/.circuitry/mcp-config.json as it is on disk
  envAccessKey,        \* process.env.CIRCUITRY_ACCESS_KEY ("" when unset)
  envEServerUrl,       \* process.env.CIRCUITRY_ESERVER_URL ("" when unset)
  client,              \* the singleton's baseUrl and accessKey (NoClient: not built)
  fileCall,            \* the file operation a library user has in flight
  connectionApproved,  \* server.ts: let connectionApproved = false
  calls                \* the tool calls in progress, by slot

\* the file on disk: missing, unparsable, or a JSON object in which a field
\* that is not there reads undefined
Absent == [disk |-> "absent"]
Corrupt == [disk |-> "corrupt"]
Stored(content) == [disk |-> "json", content |-> content]

DEFAULT_CONFIG ==
  [eserverUrl |-> "http://localhost:3030", accessKey |-> "", configured |-> FALSE]

\* loadConfig(): the defaults overlaid with the file's fields; the defaults
\* alone when the file is missing or does not parse
loadConfig ==
  IF configFile.disk = "json"
  THEN [f \in DOMAIN DEFAULT_CONFIG |->
          IF configFile.content[f].t = "undefined" THEN DEFAULT_CONFIG[f]
          ELSE configFile.content[f].v]
  ELSE DEFAULT_CONFIG

\* isConfigured(): config.configured && config.accessKey.length > 0
isConfigured == loadConfig.configured /\ loadConfig.accessKey # ""

\* a getEServerUrl that lets the file win over the environment
getEServerUrlFileFirst ==
  IF configFile.disk = "json" /\ configFile.content.eserverUrl.t # "undefined"
  THEN loadConfig.eserverUrl
  ELSE IF envEServerUrl # "" THEN envEServerUrl ELSE loadConfig.eserverUrl

\* getEServerUrl(): the environment override first, then the file
getEServerUrl == IF envEServerUrl # "" THEN envEServerUrl ELSE loadConfig.eserverUrl

\* getAccessKey(): the environment override first, then the file
getAccessKey == IF envAccessKey # "" THEN envAccessKey ELSE loadConfig.accessKey

\* new EServerClient(url, accessKey): url || getEServerUrl() and
\* accessKey || getAccessKey(); "" stands for an argument left out
NoClient == [built |-> FALSE]
EServerClient(url, accessKey) ==
  [built |-> TRUE,
   baseUrl |-> IF url # "" THEN url ELSE getEServerUrl,
   accessKey |-> IF accessKey # "" THEN accessKey ELSE getAccessKey]

(***************************************************************************)
(* EServerClient's one-shot operations, each as the function from the      *)
(* Peer's answer to what the operation returns or throws.                  *)
(***************************************************************************)
\* a ping that takes any answer of the Peer for a sign of life
pingAnyAnswer(r) == r.kind # "netfail"

\* ping(): response.ok, and false on any failure
ping(r) == r.kind = "ok"

\* getStatus(): the Peer's status with running true, else {running: false}
getStatus(r) ==
  IF r.kind = "ok"
  THEN Return(Obj([running |-> Bool(TRUE), version |-> r.data.version,
                   uptime |-> r.data.uptime,
                   circuitryConnected |-> r.data.circuitryConnected]))
  ELSE Return(Obj([running |-> Bool(FALSE)]))

\* a requestConnection that trusts the request more than the answer
requestConnectionOptimistic(r) ==
  IF r.kind = "ok"
  THEN [approved |-> r.data.approved, message |-> <<r.data.message.v>>]
  ELSE [approved |-> TRUE, message |-> <<"Connection failed">>]

\* requestConnection(): the Peer's {approved, message}; approved false on a
\* non-success status and on a transport failure. Never throws.
requestConnection(r) ==
  CASE r.kind = "ok" ->
         [approved |-> r.data.approved, message |-> <<r.data.message.v>>]
    [] r.kind = "status" ->
         [approved |-> FALSE, message |-> <<"Connection request failed: ", r.body>>]
    [] OTHER ->
         [approved |-> FALSE, message |-> <<r.message>>]

\* getConnectionStatus(): data.approved || false, and false on any failure
getConnectionStatus(r) ==
  IF r.kind = "ok"
  THEN [approved |-> Truthy(OrElse(r.data.approved, Bool(FALSE)))]
  ELSE [approved |-> FALSE]

\* sendAgentChat(): {chatId, status || 'pending'}; throws on failure
sendAgentChat(r) ==
  CASE r.kind = "ok" ->
         Return(Obj([chatId |-> r.data.chatId,
                     status |-> OrElse(r.data.status, Str("pending"))]))
    [] r.kind = "status" -> Throw(<<"Agent chat failed: ", r.body>>)
    [] OTHER -> Throw(<<r.message>>)

\* pollAgentResponse(): the Peer's poll result; on failure an error RESULT
pollAgentResponse(r) ==
  CASE r.kind = "ok" ->
         Return(Obj([status |-> r.data.status, response |-> r.data.response,
                     createdNodes |-> r.data.createdNodes, error |-> r.data.error]))
    [] r.kind = "status" ->
         Return(Obj([status |-> Str("error"),
                     error |-> Str(<<"Poll failed: ", r.status>>)]))
    [] OTHER ->
         Return(Obj([status |-> Str("error"), error |-> Str(<<r.message>>)]))

\* createCodeNodeFromFile(): data.nodeId; throws on failure
createCodeNodeFromFile(r) ==
  CASE r.kind = "ok" -> Return(r.data.nodeId)
    [] r.kind = "status" -> Throw(<<"Failed to create code node: ", r.body>>)
    [] OTHER -> Throw(<<r.message>>)

\* createCodeNodesFromFiles(): the Peer's {nodeIds, errors}; throws on failure
createCodeNodesFromFiles(r) ==
  CASE r.kind = "ok" -> Return(Obj(r.data))
    [] r.kind = "status" -> Throw(<<"Failed to create code nodes: ", r.body>>)
    [] OTHER -> Throw(<<r.message>>)

\* readFile(): the Peer's JSON; throws on failure
readFile(r) ==
  CASE r.kind = "ok" -> Return(Obj(r.data))
    [] r.kind = "status" -> Throw(<<"Failed to read file: ", r.body>>)
    [] OTHER -> Throw(<<r.message>>)

\* writeFile(): response.ok, and false on a transport failure
writeFile(r) == Return(Bool(r.kind = "ok"))

\* the message of a failed envelope: error || 'Unknown error'
ErrorText(e) == <<OrElse(e, Str("Unknown error")).v>>

\* callApiViaHttp(): unwraps {success, result, error}
callApiViaHttp(r) ==
  CASE r.kind = "status" -> Throw(<<"API call failed: ", r.status, " - ", r.body>>)
    [] r.kind = "netfail" -> Throw(<<r.message>>)
    [] OTHER ->
         IF ~r.data.success THEN Throw(ErrorText(r.data.error))
         ELSE Return(r.data.result)

(***************************************************************************)
(* The Peer's possible answers, per endpoint.                              *)
(***************************************************************************)
PingReplies == {NetFail, HttpError, HttpOk(Null)}
StatusReplies ==
  {NetFail, HttpError,
   HttpOk([version |-> Str("2.0.0"), uptime |-> Str("17"),
           circuitryConnected |-> Bool(TRUE)])}
ConnectReplies ==
  {NetFail, HttpError}
    \cup {HttpOk([approved |-> b, message |-> Str("dialog")]) : b \in BOOLEAN}
McpStatusReplies ==
  {NetFail, HttpError}
    \cup {HttpOk([approved |-> a]) : a \in {Bool(TRUE), Bool(FALSE), Undefined}}
ChatReplies ==
  {NetFail, HttpError}
    \cup {HttpOk([chatId |-> Str("chat1"), status |-> st]) :
            st \in {Undefined, Str("completed")}}
PollReplies ==
  {NetFail, HttpError,
   HttpOk([status |-> Str("completed"), response |-> Str("done"),
           createdNodes |-> Undefined, error |-> Undefined])}
CreateNodeReplies == {NetFail, HttpError, HttpOk([nodeId |-> Str("node1")])}
BatchReplies ==
  {NetFail, HttpError, HttpOk([nodeIds |-> Str("node1,node2"), errors |-> Str("")])}
\* the {success, result, error} envelopes of the generic relay
ApiEnvelopes ==
  {[success |-> TRUE, result |-> x, error |-> Undefined] :
     x \in {Undefined, Str(""), Obj([workflowId |-> Str("w1")])}}
    \cup {[success |-> FALSE, result |-> Undefined, error |-> e] :
            e \in {Undefined, Str(""), Str("no such node")}}
ApiReplies == {NetFail, HttpError} \cup {HttpOk(e) : e \in ApiEnvelopes}

(***************************************************************************)
(* Result envelopes (server.ts, successResponse / errorResponse).  The     *)
(* text is kept in parts; a success envelope has no isError field.         *)
(***************************************************************************)
successResponse(data) ==
  [text |-> IF data.t \in {"undefined", "null"}
            THEN <<"Success (no return value)">>
            ELSE IF data.t = "object"
                 THEN <<"JSON", data.v>>
                 ELSE <<data.v>>]

errorResponse(message) == [text |-> <<"Error: ">> \o message, isError |-> TRUE]

NotConfiguredText ==
  <<"Circuitry MCP Server is not configured.\n\nRun this command to set up:\n  npx @circuitry/mcp-server setup">>
CannotConnectText == <<"Cannot connect to EServer at ", "url">>
NotApprovedText ==
  <<"Connection not approved.\n\nCall circuitry.connect first to request permission from the user.">>

(***************************************************************************)
(* Tool calls.  ToolNames holds every name server.ts matches literally     *)
(* and two names of the generic relay.                                     *)
(***************************************************************************)
ToolNames ==
  {"circuitry.status", "circuitry.connect",
   "agent.chat", "agent.createFlowchart", "agent.poll",
   "workflow.getActive", "workflow.getStructure", "workflow.resolveFlow",
   "workflow.getNodeSummary", "code.create", "code.createBatch",
   "nodes.get", "sheet.setData"}

\* the argument payloads the frontend may pass with a name
ArgsFor(name) ==
  CASE name = "agent.chat" ->
         {Obj([message |-> Str("hello"), context |-> cx]) :
            cx \in {Undefined, Obj([source |-> Str("cli")])}}
    [] name = "agent.createFlowchart" ->
         {Obj([description |-> Str("login flow"), style |-> st]) :
            st \in {Undefined, Str(""), Str("simple")}}
    [] name = "agent.poll" -> {Obj([chatId |-> Str("chat1")]), Undefined}
    [] name = "workflow.resolveFlow" -> {Obj([userMessage |-> Str("run it")])}
    [] name = "workflow.getNodeSummary" -> {Obj([nodeIds |-> Undefined])}
    [] name = "code.create" ->
         {Obj([filePath |-> Str("/a/b.ts"), name |-> Undefined,
               content |-> Str("x"), position |-> Undefined]),
          Obj([filePath |-> Undefined, name |-> Str("n"),
               content |-> Str("x"), position |-> Undefined]),
          Obj([filePath |-> Str(""), name |-> Str("n"),
               content |-> Str("x"), position |-> Undefined])}
    [] name = "code.createBatch" ->
         {Obj([filePaths |-> Str("/a/b.ts,/a/c.ts"), layout |-> Undefined])}
    [] name = "nodes.get" -> {Obj([nodeId |-> Str("n1")]), Undefined}
    [] OTHER -> {Obj([none |-> Undefined])}

\* args.f, undefined when the field is absent
Field(args, f) == IF f \in DOMAIN args.v THEN args.v[f] ELSE Undefined

NoEnvelope == [text |-> <<>>, pending |-> TRUE]
IdleCall ==
  [pc |-> "idle", name |-> "", args |-> Undefined, reqs |-> <<>>,
   gate |-> "unread", envelope |-> NoEnvelope]

Unanswered == [kind |-> "unanswered"]

\* the gate's value as the call read it
GateOf(approved) == IF approved THEN "approved" ELSE "unapproved"

\* one request to the Peer, noted in the call's log when it is issued
Issue(call, op, arg, pc) ==
  [call EXCEPT !.reqs = Append(@, [op |-> op, arg |-> arg, reply |-> Unanswered]),
               !.pc = pc]

\* the Peer's answer to the call's last request, noted beside it
Answered(call, r) == [call EXCEPT !.reqs[Len(call.reqs)].reply = r]

\* the handler returns an envelope
Finish(call, env) == [call EXCEPT !.pc = "done", !.envelope = env]

\* the operations server.ts reaches only past the permission gate
RoutedOps ==
  {"sendAgentChat", "pollAgentResponse", "createCodeNodeFromFile",
   "createCodeNodesFromFiles", "callApi"}

Ops(call) == {call.reqs[i].op : i \in DOMAIN call.reqs}
CountOp(call, op) == Cardinality({i \in DOMAIN call.reqs : call.reqs[i].op = op})

(***************************************************************************)
(* The call_tool handler of server.ts, cut at its awaits.                  *)
(***************************************************************************)
\* destructuring `args` when the caller passed none throws a TypeError
TypeErrorText == <<"Cannot destructure property of 'args' as it is undefined.">>

\* a callApi that sends the method without the arguments
ApiRequestBare(method, args) == [method |-> method, args |-> Obj([none |-> Undefined])]

\* callApi(method, args = {}): the request it issues
ApiRequest(method, args) ==
  [method |-> method,
   args |-> IF args.t = "undefined" THEN Obj([none |-> Undefined]) ELSE args]

\* a code.create that uses the file only when no content came with it
CodeCreateContentFirst(call) ==
  IF Truthy(Field(call.args, "filePath")) /\ ~Truthy(Field(call.args, "content"))
  THEN Issue(call, "createCodeNodeFromFile",
             [filePath |-> Field(call.args, "filePath"),
              name |-> Field(call.args, "name"),
              position |-> Field(call.args, "position")], "remote")
  ELSE Issue(call, "callApi",
             ApiRequest("code.create",
                        Obj([name |-> Field(call.args, "name"),
                             content |-> Field(call.args, "content"),
                             position |-> Field(call.args, "position")])),
             "remote")

\* the code.create branch (server.ts 225-243): the file-backed operation if
\* filePath is truthy, else the relay with name, content and position
CodeCreate(call) ==
  IF Truthy(Field(call.args, "filePath"))
  THEN Issue(call, "createCodeNodeFromFile",
             [filePath |-> Field(call.args, "filePath"),
              name |-> Field(call.args, "name"),
              position |-> Field(call.args, "position")], "remote")
  ELSE Issue(call, "callApi",
             ApiRequest("code.create",
                        Obj([name |-> Field(call.args, "name"),
                             content |-> Field(call.args, "content"),
                             position |-> Field(call.args, "position")])),
             "remote")

\* a flowchart instruction that names the style whether or not one is given
FlowchartMessageStyled(args) ==
  <<"Create a ",
    IF Field(args, "style").t = "string" THEN Field(args, "style").v
    ELSE "undefined",
    " flowchart: ", Field(args, "description").v>>

\* agent.createFlowchart's instruction (server.ts 182-184): the style is
\* named when it is truthy
FlowchartMessage(args) ==
  IF Truthy(Field(args, "style"))
  THEN <<"Create a ", Field(args, "style").v, " flowchart: ",
         Field(args, "description").v>>
  ELSE <<"Create a flowchart: ", Field(args, "description").v>>

\* the name-specific branches (server.ts 173-255) up to their await
Route(call) ==
  LET name == call.name
      args == call.args
      destructures ==
        name \in {"agent.chat", "agent.createFlowchart", "agent.poll",
                  "workflow.resolveFlow", "workflow.getNodeSummary",
                  "code.create", "code.createBatch"}
  IN
  IF destructures /\ args.t = "undefined"
  THEN Finish(call, errorResponse(TypeErrorText))
  ELSE
  CASE name = "agent.chat" ->
         Issue(call, "sendAgentChat",
               [message |-> <<Field(args, "message").v>>,
                context |-> Field(args, "context")], "remote")
    [] name = "agent.createFlowchart" ->
         Issue(call, "sendAgentChat",
               [message |-> FlowchartMessage(args),
                context |-> Obj([intent |-> Str("flowchart"),
                                 style |-> Field(args, "style")])], "remote")
    [] name = "agent.poll" ->
         Issue(call, "pollAgentResponse", [chatId |-> Field(args, "chatId")],
               "remote")
    [] name \in {"workflow.getActive", "workflow.getStructure"} ->
         Issue(call, "callApi",
               ApiRequest("mcp.getWorkflowStructure", Obj([none |-> Undefined])),
               "remote")
    [] name = "workflow.resolveFlow" ->
         Issue(call, "callApi",
               ApiRequest("mcp.resolveFlow",
                          Obj([userMessage |-> Field(args, "userMessage")])),
               "remote")
    [] name = "workflow.getNodeSummary" ->
         Issue(call, "callApi",
               ApiRequest("mcp.getNodeSummary",
                          Obj([nodeIds |-> OrElse(Field(args, "nodeIds"),
                                                  Str("[]"))])),
               "remote")
    [] name = "code.create" -> CodeCreate(call)
    [] name = "code.createBatch" ->
         Issue(call, "createCodeNodesFromFiles",
               [filePaths |-> Field(args, "filePaths"),
                layout |-> Field(args, "layout")], "remote")
    [] OTHER -> Issue(call, "callApi", ApiRequest(name, args), "remote")

\* server.ts 160-171, entered with the gate's value `approved`
PermissionStep(call, approved) ==
  IF ~approved
  THEN Issue([call EXCEPT !.gate = GateOf(approved)], "getConnectionStatus", Null,
             "getConnectionStatus")
  ELSE Route([call EXCEPT !.gate = GateOf(approved)])

\* a connect branch that asks the Peer every time
ConnectStepAlways(call, approved) ==
  Issue([call EXCEPT !.gate = GateOf(approved)], "requestConnection", Null,
        "requestConnection")

\* server.ts 139-149, entered with the gate's value `approved`
ConnectStep(call, approved) ==
  IF approved
  THEN Finish([call EXCEPT !.gate = GateOf(approved)],
              successResponse(Obj([approved |-> Bool(TRUE),
                                   message |-> Str("Already connected and approved")])))
  ELSE Issue([call EXCEPT !.gate = GateOf(approved)], "requestConnection", Null,
             "requestConnection")

\* a handler that probes nothing before it starts
BeginNoChecks(call) == Issue(call, "ping", Null, "ping")

\* server.ts 114-122: the configuration check, then the ping is sent
Begin(call) ==
  IF ~isConfigured
  THEN Finish(call, errorResponse(NotConfiguredText))
  ELSE Issue(call, "ping", Null, "ping")

\* a handler that goes on after a failed ping
AfterPingLenient(call, connected, approved) ==
  CASE call.name = "circuitry.status" -> Issue(call, "getStatus", Null, "getStatus")
    [] call.name = "circuitry.connect" -> ConnectStep(call, approved)
    [] OTHER -> PermissionStep(call, approved)

\* server.ts 123-171: the code between the ping's answer and the next await
AfterPing(call, connected, approved) ==
  IF ~connected
  THEN Finish(call, errorResponse(CannotConnectText))
  ELSE CASE call.name = "circuitry.status" ->
              Issue(call, "getStatus", Null, "getStatus")
         [] call.name = "circuitry.connect" -> ConnectStep(call, approved)
         [] OTHER -> PermissionStep(call, approved)

\* {...status, approved}
WithApproved(status, approved) ==
  Obj([f \in DOMAIN status.v \cup {"approved"} |->
         IF f = "approved" THEN Bool(approved) ELSE status.v[f]])

\* a status branch that adopts what the Peer says about its connection
AfterGetStatusAdopting(call, status, approved) ==
  [call |-> Finish(call, successResponse(WithApproved(status, approved))),
   approved |-> Truthy(status.v.running)]

\* server.ts 132-136: the status envelope; the gate is only read
AfterGetStatus(call, status, approved) ==
  [call |-> Finish(call, successResponse(WithApproved(status, approved))),
   approved |-> approved]

\* server.ts 149-157: the gate adopts the Peer's answer
AfterRequestConnection(call, result, approved) ==
  [call |->
     Finish(call,
            successResponse(
              Obj([approved |-> Bool(result.approved),
                   message |->
                     IF result.approved
                     THEN Str("Connection approved. Chat panel opened in agent+mcp mode.")
                     ELSE Str("Connection denied by user.")]))),
   approved |-> result.approved]

\* a re-check that waves the call through, whatever the answer
AfterGetConnectionStatusLenient(call, status, approved) ==
  [call |-> Route(call), approved |-> TRUE]

\* a re-check whose answer is not looked at
AfterGetConnectionStatusIgnoring(call, status, approved) ==
  [call |-> Finish(call, errorResponse(NotApprovedText)), approved |-> approved]

\* server.ts 163-170: the re-check's answer
AfterGetConnectionStatus(call, status, approved) ==
  IF status.approved
  THEN [call |-> Route(call), approved |-> TRUE]
  ELSE [call |-> Finish(call, errorResponse(NotApprovedText)),
        approved |-> approved]

\* the client operation a routed request resolves through
RemoteResult(req, r) ==
  CASE req.op = "sendAgentChat" -> sendAgentChat(r)
    [] req.op = "pollAgentResponse" -> pollAgentResponse(r)
    [] req.op = "createCodeNodeFromFile" -> createCodeNodeFromFile(r)
    [] req.op = "createCodeNodesFromFiles" -> createCodeNodesFromFiles(r)
    [] OTHER -> callApiViaHttp(r)

RemoteReplies(req) ==
  CASE req.op = "sendAgentChat" -> ChatReplies
    [] req.op = "pollAgentResponse" -> PollReplies
    [] req.op = "createCodeNodeFromFile" -> CreateNodeReplies
    [] req.op = "createCodeNodesFromFiles" -> BatchReplies
    [] OTHER -> ApiReplies

\* structure.f of workflow.getActive: undefined on a value without the field
Member(x, f) ==
  IF x.t = "object" /\ f \in DOMAIN x.v THEN x.v[f] ELSE Undefined

\* a handler without its catch block: the error leaves the handler
AfterRemoteUncaught(call, res) ==
  IF res.throw
  THEN [call EXCEPT !.pc = "fault"]
  ELSE Finish(call, successResponse(res.value))

\* the code after the routed await: the catch block, workflow.getActive's
\* projection, and the success envelope
AfterRemote(call, res) ==
  IF res.throw
  THEN Finish(call, errorResponse(res.message))
  ELSE IF call.name = "workflow.getActive"
       THEN IF res.value.t \in {"undefined", "null"}
            THEN Finish(call,
                        errorResponse(<<"Cannot read properties of undefined">>))
            ELSE Finish(call,
                        successResponse(
                          Obj([id |-> Member(res.value, "workflowId"),
                               name |-> Member(res.value, "workflowName"),
                               nodeCount |-> Member(res.value, "nodeCount"),
                               edgeCount |-> Member(res.value, "edgeCount")])))
       ELSE Finish(call, successResponse(res.value))

(***************************************************************************)
(* The dispatcher's actions: a call's start and each of its resumptions.   *)
(***************************************************************************)
StartCall(c) ==
  /\ calls[c].pc = "idle"
  /\ \E name \in ToolNames :
       \E args \in ArgsFor(name) :
         calls' = [calls EXCEPT
                     ![c] = Begin([IdleCall EXCEPT !.pc = "start",
                                                   !.name = name, !.args = args])]
  /\ UNCHANGED connectionApproved

PingReply(c) ==
  /\ calls[c].pc = "ping"
  /\ \E r \in PingReplies :
       calls' = [calls EXCEPT ![c] = AfterPing(Answered(calls[c], r), ping(r), connectionApproved)]
  /\ UNCHANGED connectionApproved

GetStatusReply(c) ==
  /\ calls[c].pc = "getStatus"
  /\ \E r \in StatusReplies :
       LET next == AfterGetStatus(Answered(calls[c], r), getStatus(r).value,
                                  connectionApproved)
       IN /\ calls' = [calls EXCEPT ![c] = next.call]
          /\ connectionApproved' = next.approved

RequestConnectionReply(c) ==
  /\ calls[c].pc = "requestConnection"
  /\ \E r \in ConnectReplies :
       LET next == AfterRequestConnection(Answered(calls[c], r), requestConnection(r),
                                          connectionApproved)
       IN /\ calls' = [calls EXCEPT ![c] = next.call]
          /\ connectionApproved' = next.approved

GetConnectionStatusReply(c) ==
  /\ calls[c].pc = "getConnectionStatus"
  /\ \E r \in McpStatusReplies :
       LET next == AfterGetConnectionStatus(Answered(calls[c], r), getConnectionStatus(r),
                                            connectionApproved)
       IN /\ calls' = [calls EXCEPT ![c] = next.call]
          /\ connectionApproved' = next.approved

RemoteReply(c) ==
  /\ calls[c].pc = "remote"
  /\ LET req == calls[c].reqs[Len(calls[c].reqs)]
     IN \E r \in RemoteReplies(req) :
          calls' = [calls EXCEPT ![c] = AfterRemote(Answered(calls[c], r), RemoteResult(req, r))]
  /\ UNCHANGED connectionApproved

\* the envelope has gone back to the frontend; the slot serves the next call
Retire(c) ==
  /\ calls[c].pc = "done"
  /\ calls' = [calls EXCEPT ![c] = IdleCall]
  /\ UNCHANGED connectionApproved

(***************************************************************************)
(* EServerClient's persistent channel (index.ts 125-670).                  *)
(***************************************************************************)
VARIABLES
  ws,                   \* this.ws: a socket, or NoSocket for null
  wsConnected,          \* this.wsConnected
  sockets,              \* readyState of each socket object that can still emit
  pendingRequests,      \* this.pendingRequests: requestId -> the call's closure
  apiTimer,             \* the setTimeout of each callApiViaWs call (0: none)
  api,                  \* the callApi invocations and how each was settled
  outbound,             \* what callApi has transmitted, in order
  reconnectAttempts,    \* this.reconnectAttempts
  maxReconnectAttempts, \* this.maxReconnectAttempts
  reconnectTimers,      \* pending reconnect timers: delay -> how many
  closeLog,             \* per close since the last open: the delay it scheduled
  promptHandlers,       \* this.promptHandlers
  promptLog,            \* the handler invocations, in order
  lastInbound,          \* the frame the step just taken handled (NoFrame: none)
  openLog,              \* per open: reconnectAttempts as the open handler found it
  idleConnects          \* connectWebSocket invocations that found the channel connected

libraryVars == <<configFile, envAccessKey, envEServerUrl, client, fileCall>>
dispatchVars == <<libraryVars, connectionApproved, calls>>
channelVars ==
  <<ws, wsConnected, sockets, pendingRequests, apiTimer, api, outbound,
    reconnectAttempts, maxReconnectAttempts, reconnectTimers, closeLog,
    promptHandlers, promptLog, lastInbound, openLog,
    idleConnects>>
vars == <<dispatchVars, channelVars>>

\* private ws: WebSocket | null = null
NoSocket == 0
\* private maxReconnectAttempts = 5
MaxReconnectAttempts == 5
\* private reconnectDelay = 1000
reconnectDelay == 1000
\* setTimeout(..., 30000) of callApiViaWs
ApiTimeout == 30000

Sockets == 1 .. MaxSockets
ApiCalls == 1 .. MaxApiCalls
RequestIds == 1 .. MaxIds
NoCall == 0

RECURSIVE Pow2(_)
Pow2(n) == IF n = 0 THEN 1 ELSE 2 * Pow2(n - 1)

\* the delays attemptReconnect can compute
Delays == {reconnectDelay * Pow2(n - 1) : n \in 1 .. MaxReconnectAttempts}

PendingTimers == LET RECURSIVE Sum(_)
                     Sum(S) == IF S = {} THEN 0
                               ELSE LET d == CHOOSE x \in S : TRUE
                                    IN reconnectTimers[d] + Sum(S \ {d})
                 IN Sum(Delays)

\* a backoff whose cap lets one attempt too many through
attemptReconnectInclusive(attempts, max) ==
  IF attempts > max
  THEN [attempts |-> attempts, delay |-> 0]
  ELSE [attempts |-> attempts + 1,
        delay |-> reconnectDelay * Pow2((attempts + 1) - 1)]

\* a backoff that never grows
attemptReconnectFlat(attempts, max) ==
  IF attempts >= max
  THEN [attempts |-> attempts, delay |-> 0]
  ELSE [attempts |-> attempts + 1, delay |-> reconnectDelay]

\* attemptReconnect(): the counter after it and the delay it schedules
\* (0: it returned at the cap and scheduled nothing)
attemptReconnect(attempts, max) ==
  IF attempts >= max
  THEN [attempts |-> attempts, delay |-> 0]
  ELSE [attempts |-> attempts + 1,
        delay |-> reconnectDelay * Pow2((attempts + 1) - 1)]

\* setTimeout(() => this.connectWebSocket(), delay)
Schedule(delay) ==
  IF delay = 0 THEN reconnectTimers
  ELSE [reconnectTimers EXCEPT ![delay] = @ + 1]

(***************************************************************************)
(* Frames the Peer may push on an open socket.  The Peer is not trusted:   *)
(* any frame may arrive at any time, in any order, more than once.         *)
(***************************************************************************)
ApiResponse(id, env) ==
  [type |-> "api_response",
   payload |-> [requestId |-> id, success |-> env.success,
                result |-> env.result, error |-> env.error]]

\* the envelopes of api_response frames
WsEnvelopes ==
  {[success |-> TRUE, result |-> Str("r"), error |-> Undefined],
   [success |-> FALSE, result |-> Undefined, error |-> Undefined],
   [success |-> FALSE, result |-> Undefined, error |-> Str("no such node")]}

ResponseFrames == {ApiResponse(id, env) : id \in RequestIds, env \in WsEnvelopes}
\* api_response frames carrying each envelope of the generic relay
RelayFrames == {ApiResponse(id, env) : id \in RequestIds, env \in ApiEnvelopes}
PromptFrame == [type |-> "prompt", payload |-> [id |-> "p1"]]
PingFrame == [type |-> "ping", payload |-> Null]
\* prompt frames with different payloads
PromptFrames == {[type |-> "prompt", payload |-> [id |-> p]] : p \in {"p1", "p2"}}
StatusFrame == [type |-> "status", payload |-> Null]
\* data that JSON.parse rejects
MalformedFrame == [type |-> "malformed", payload |-> Null]

NoFrame == [type |-> "none", payload |-> Null]
NoOutcome == [throw |-> FALSE, value |-> Undefined, none |-> TRUE]
IdleApi ==
  [state |-> "idle", via |-> "none", id |-> 0, outcome |-> NoOutcome,
   by |-> NoFrame]

\* a promise settles once: resolve and reject on a settled promise do nothing
Settle(a, outcome, frame) ==
  IF a.state # "pending" THEN a
  ELSE [a EXCEPT !.state = IF outcome.throw THEN "rejected" ELSE "resolved",
                 !.outcome = outcome, !.by = frame]

\* a resolve closure that hands the caller the whole response
WsOutcomeWhole(response) ==
  IF response.success THEN Return(Obj(response))
  ELSE Throw(ErrorText(response.error))

\* the resolve closure of callApiViaWs (index.ts 480-486) on a response
WsOutcome(response) ==
  IF response.success THEN Return(response.result)
  ELSE Throw(ErrorText(response.error))

TimeoutFrame == [type |-> "timeout", payload |-> Null]
SendFrame == [type |-> "send", payload |-> Null]
HttpFrame == [type |-> "http", payload |-> Null]
\* the answer to callApiViaHttp's fetch, kept beside the call it settled
HttpAnswer(r) == [HttpFrame EXCEPT !.payload = r]

\* an api_response handler that settles the oldest call, whatever the id
HandleApiResponseInOrder(response) ==
  LET waiting == {k \in ApiCalls : api[k].state = "pending" /\ api[k].via = "ws"}
      owner == IF waiting = {} THEN NoCall
               ELSE CHOOSE k \in waiting : \A j \in waiting : k <= j
  IN
  IF owner = NoCall
  THEN UNCHANGED <<pendingRequests, apiTimer, api>>
  ELSE /\ apiTimer' = [apiTimer EXCEPT ![owner] = 0]
       /\ pendingRequests' = [pendingRequests EXCEPT ![api[owner].id] = NoCall]
       /\ api' = [api EXCEPT
                    ![owner] = Settle(@, WsOutcome(response),
                                      [type |-> "api_response", payload |-> response])]

\* handleWsMessage, case 'api_response' (index.ts 596-605)
HandleApiResponse(response) ==
  LET owner == pendingRequests[response.requestId]
  IN
  IF owner = NoCall
  THEN UNCHANGED <<pendingRequests, apiTimer, api>>
  ELSE /\ apiTimer' = [apiTimer EXCEPT ![owner] = 0]
       /\ pendingRequests' = [pendingRequests EXCEPT ![response.requestId] = NoCall]
       /\ api' = [api EXCEPT
                    ![owner] = Settle(@, WsOutcome(response),
                                      [type |-> "api_response", payload |-> response])]

\* a ping handler that sends the ping back
SendPing ==
  IF ws # NoSocket /\ sockets[ws] = "open"
  THEN outbound' = Append(outbound, [type |-> "ping", requestId |-> 0, socket |-> ws])
  ELSE UNCHANGED outbound

\* this.ws?.send(frame): the ws library throws on a socket that is still
\* connecting; the message handler's try/catch swallows it
SendPong ==
  IF ws # NoSocket /\ sockets[ws] = "open"
  THEN outbound' = Append(outbound, [type |-> "pong", requestId |-> 0, socket |-> ws])
  ELSE UNCHANGED outbound

\* `for (const handler of this.promptHandlers) handler(prompt)`: how far
\* the loop gets; a handler that throws ends it, and the message handler's
\* catch swallows the error
Reached(handlers) ==
  IF \E i \in DOMAIN handlers : handlers[i].throws
  THEN CHOOSE i \in DOMAIN handlers :
         handlers[i].throws /\ \A j \in 1 .. i - 1 : ~handlers[j].throws
  ELSE Len(handlers)

\* a message handler that fails the calls in flight on a frame it cannot use
handleWsMessageStrict(message) ==
  CASE message.type = "api_response" ->
         /\ HandleApiResponse(message.payload)
         /\ UNCHANGED <<outbound, promptLog>>
    [] message.type = "prompt" ->
         /\ promptLog' = promptLog \o [i \in 1 .. Reached(promptHandlers) |->
                                         <<promptHandlers[i].id, message.payload.id>>]
         /\ UNCHANGED <<pendingRequests, apiTimer, api, outbound>>
    [] message.type = "ping" ->
         /\ SendPong
         /\ UNCHANGED <<pendingRequests, apiTimer, api, promptLog>>
    [] OTHER ->
         /\ pendingRequests' = [id \in RequestIds |-> NoCall]
         /\ apiTimer' = [k \in ApiCalls |-> 0]
         /\ api' = [k \in ApiCalls |->
                      IF api[k].via = "ws"
                      THEN Settle(api[k], Throw(<<"Protocol error">>), message)
                      ELSE api[k]]
         /\ UNCHANGED <<outbound, promptLog>>

\* the 'message' handler (index.ts 566-573) with handleWsMessage (594-624)
handleWsMessage(message) ==
  CASE message.type = "api_response" ->
         /\ HandleApiResponse(message.payload)
         /\ UNCHANGED <<outbound, promptLog>>
    [] message.type = "prompt" ->
         /\ promptLog' = promptLog \o [i \in 1 .. Reached(promptHandlers) |->
                                         <<promptHandlers[i].id, message.payload.id>>]
         /\ UNCHANGED <<pendingRequests, apiTimer, api, outbound>>
    [] message.type = "ping" ->
         /\ SendPong
         /\ UNCHANGED <<pendingRequests, apiTimer, api, promptLog>>
    [] OTHER ->
         UNCHANGED <<pendingRequests, apiTimer, api, outbound, promptLog>>

(***************************************************************************)
(* The channel's actions.                                                  *)
(***************************************************************************)
\* a connectWebSocket without its early return: a connecting socket takes
\* the handle every time (the handle's own slot when no other is left)
connectWebSocketAnew ==
  LET free == {s \in DOMAIN sockets : sockets[s] = "free"}
      s == IF free # {} THEN CHOOSE x \in free : \A t \in free : x <= t ELSE ws
  IN /\ s # NoSocket
     /\ sockets' = [sockets EXCEPT ![s] = "connecting"]
     /\ ws' = s

\* connectWebSocket() (index.ts 543-557): nothing when connected, else a
\* new socket object takes the handle; the old object, if any, lives on
connectWebSocket ==
  IF ws # NoSocket /\ wsConnected
  THEN UNCHANGED <<ws, sockets>>
  ELSE \E s \in DOMAIN sockets :
         /\ sockets[s] = "free"
         /\ \A t \in DOMAIN sockets : sockets[t] = "free" => s <= t
         /\ sockets' = [sockets EXCEPT ![s] = "connecting"]
         /\ ws' = s

\* an explicit invocation of connectWebSocket()
ConnectWebSocket ==
  /\ connectWebSocket
  /\ UNCHANGED <<wsConnected, pendingRequests, apiTimer, api, outbound,
                 reconnectAttempts, maxReconnectAttempts, reconnectTimers,
                 closeLog, promptHandlers, promptLog>>

\* an open handler that leaves the attempt counter as it is
SocketOpenKeepsCount(s) ==
  /\ sockets[s] = "connecting"
  /\ sockets' = [sockets EXCEPT ![s] = "open"]
  /\ wsConnected' = TRUE
  /\ UNCHANGED <<ws, pendingRequests, apiTimer, api, outbound, reconnectAttempts,
                 maxReconnectAttempts, reconnectTimers, promptHandlers, promptLog>>

\* the 'open' handler (index.ts 559-564)
SocketOpen(s) ==
  /\ sockets[s] = "connecting"
  /\ sockets' = [sockets EXCEPT ![s] = "open"]
  /\ wsConnected' = TRUE
  /\ reconnectAttempts' = 0
  /\ UNCHANGED <<ws, pendingRequests, apiTimer, api, outbound,
                 maxReconnectAttempts, reconnectTimers, promptHandlers, promptLog>>

\* a close handler that cancels the timeouts of the calls in flight
SocketCloseCancelsTimers(s) ==
  /\ sockets[s] # "free"
  /\ PendingTimers < MaxTimers
  /\ LET r == attemptReconnect(reconnectAttempts, maxReconnectAttempts)
     IN /\ reconnectAttempts' = r.attempts
        /\ reconnectTimers' = Schedule(r.delay)
  /\ sockets' = [sockets EXCEPT ![s] = "free"]
  /\ wsConnected' = FALSE
  /\ ws' = NoSocket
  /\ apiTimer' = [k \in ApiCalls |-> 0]
  /\ UNCHANGED <<pendingRequests, api, outbound, maxReconnectAttempts,
                 promptHandlers, promptLog>>

\* the 'close' handler (index.ts 575-580) of any socket object: a failed
\* connection attempt, a close by the Peer, or the end of a close() it began
SocketClose(s) ==
  /\ sockets[s] # "free"
  /\ PendingTimers < MaxTimers
  /\ LET r == attemptReconnect(reconnectAttempts, maxReconnectAttempts)
     IN /\ reconnectAttempts' = r.attempts
        /\ reconnectTimers' = Schedule(r.delay)
  /\ sockets' = [sockets EXCEPT ![s] = "free"]
  /\ wsConnected' = FALSE
  /\ ws' = NoSocket
  /\ UNCHANGED <<pendingRequests, apiTimer, api, outbound, maxReconnectAttempts,
                 promptHandlers, promptLog>>

\* a reconnect timer set by attemptReconnect fires (index.ts 640-644)
ReconnectTimerFire(d) ==
  /\ reconnectTimers[d] > 0
  /\ reconnectTimers' = [reconnectTimers EXCEPT ![d] = @ - 1]
  /\ connectWebSocket
  /\ UNCHANGED <<wsConnected, pendingRequests, apiTimer, api, outbound,
                 reconnectAttempts, maxReconnectAttempts, closeLog,
                 promptHandlers, promptLog>>

\* a disconnect() that rejects the calls in flight and clears the map
DisconnectRejecting ==
  /\ maxReconnectAttempts' = 0
  /\ sockets' = IF ws = NoSocket THEN sockets
                ELSE [sockets EXCEPT
                        ![ws] = IF @ = "open" THEN "closing" ELSE "aborting"]
  /\ ws' = NoSocket
  /\ wsConnected' = FALSE
  /\ pendingRequests' = [id \in RequestIds |-> NoCall]
  /\ apiTimer' = [k \in ApiCalls |-> 0]
  /\ api' = [k \in ApiCalls |->
               IF api[k].via = "ws"
               THEN Settle(api[k], Throw(<<"Disconnected">>), NoFrame)
               ELSE api[k]]
  /\ UNCHANGED <<outbound, reconnectAttempts, reconnectTimers, closeLog,
                 promptHandlers, promptLog>>

\* disconnect() (index.ts 657-662); the socket's close event comes later
Disconnect ==
  /\ maxReconnectAttempts' = 0
  /\ sockets' = IF ws = NoSocket THEN sockets
                ELSE [sockets EXCEPT
                        ![ws] = IF @ = "open" THEN "closing" ELSE "aborting"]
  /\ ws' = NoSocket
  /\ wsConnected' = FALSE
  /\ UNCHANGED <<pendingRequests, apiTimer, api, outbound, reconnectAttempts,
                 reconnectTimers, closeLog, promptHandlers, promptLog>>

\* an inbound frame on a socket that is open (or closing after it was open)
Receive(s, message) ==
  /\ sockets[s] \in {"open", "closing"}
  /\ handleWsMessage(message)
  /\ UNCHANGED <<ws, wsConnected, sockets, reconnectAttempts,
                 maxReconnectAttempts, reconnectTimers, closeLog, promptHandlers>>

\* callApiViaWs (index.ts 470-505) under a requestId the generator produced
callApiViaWs(k, id) ==
  /\ apiTimer' = [apiTimer EXCEPT ![k] = ApiTimeout]
  /\ pendingRequests' = [pendingRequests EXCEPT ![id] = k]
  /\ IF sockets[ws] = "open"
     THEN /\ outbound' = Append(outbound,
                                [type |-> "api_request", requestId |-> id,
                                 socket |-> ws])
          /\ api' = [api EXCEPT ![k] = [IdleApi EXCEPT !.state = "pending",
                                                       !.via = "ws", !.id = id]]
     ELSE \* send() throws inside the promise executor: rejected at once,
          \* with the entry and its timer left behind
          /\ UNCHANGED outbound
          /\ api' = [api EXCEPT
                       ![k] = [IdleApi EXCEPT
                                 !.state = "rejected", !.via = "ws", !.id = id,
                                 !.outcome = Throw(<<"WebSocket is not open: readyState 0 (CONNECTING)">>),
                                 !.by = SendFrame]]

\* a callApi that looks at the handle only, not at wsConnected
CallApiOnHandle(k) ==
  /\ api[k].state = "idle"
  /\ IF ws # NoSocket
     THEN \E id \in RequestIds : callApiViaWs(k, id)
     ELSE /\ api' = [api EXCEPT ![k] = [IdleApi EXCEPT !.state = "pending",
                                                       !.via = "http"]]
          /\ outbound' = Append(outbound,
                                [type |-> "http", requestId |-> 0,
                                 socket |-> NoSocket])
          /\ UNCHANGED <<pendingRequests, apiTimer>>
  /\ UNCHANGED <<ws, wsConnected, sockets, reconnectAttempts, maxReconnectAttempts,
                 reconnectTimers, closeLog, promptHandlers, promptLog>>

\* callApi (index.ts 434-442): the transport is chosen when the call is made
CallApi(k) ==
  /\ api[k].state = "idle"
  /\ IF wsConnected /\ ws # NoSocket
     THEN \E id \in RequestIds : callApiViaWs(k, id)
     ELSE /\ api' = [api EXCEPT ![k] = [IdleApi EXCEPT !.state = "pending",
                                                       !.via = "http"]]
          /\ outbound' = Append(outbound,
                                [type |-> "http", requestId |-> 0,
                                 socket |-> NoSocket])
          /\ UNCHANGED <<pendingRequests, apiTimer>>
  /\ UNCHANGED <<ws, wsConnected, sockets, reconnectAttempts, maxReconnectAttempts,
                 reconnectTimers, closeLog, promptHandlers, promptLog>>

\* the answer to callApiViaHttp's fetch (index.ts 447-465)
HttpApiReply(k, replies) ==
  /\ api[k].state = "pending" /\ api[k].via = "http"
  /\ \E r \in replies :
       api' = [api EXCEPT ![k] = Settle(@, callApiViaHttp(r), HttpAnswer(r))]
  /\ UNCHANGED <<ws, wsConnected, sockets, pendingRequests, apiTimer, outbound,
                 reconnectAttempts, maxReconnectAttempts, reconnectTimers,
                 closeLog, promptHandlers, promptLog>>

\* a timeout callback that rejects and forgets to clean up
TimeoutCallbackLeaky(k) ==
  /\ pendingRequests' = pendingRequests
  /\ api' = [api EXCEPT ![k] = Settle(@, Throw(<<"API call timeout">>), TimeoutFrame)]

\* the timeout callback of callApiViaWs (index.ts 474-477)
TimeoutCallback(k) ==
  /\ pendingRequests' = [pendingRequests EXCEPT ![api[k].id] = NoCall]
  /\ api' = [api EXCEPT ![k] = Settle(@, Throw(<<"API call timeout">>), TimeoutFrame)]

\* a timer whose callback does nothing once the client was disconnected
ApiTimeoutFireUnlessDisconnected(k) ==
  /\ apiTimer[k] # 0
  /\ apiTimer' = [apiTimer EXCEPT ![k] = 0]
  /\ IF maxReconnectAttempts = 0
     THEN UNCHANGED <<pendingRequests, api>>
     ELSE TimeoutCallback(k)
  /\ UNCHANGED <<ws, wsConnected, sockets, outbound, reconnectAttempts,
                 maxReconnectAttempts, reconnectTimers, closeLog,
                 promptHandlers, promptLog>>

\* the 30 s timer of call k fires
ApiTimeoutFire(k) ==
  /\ apiTimer[k] # 0
  /\ apiTimer' = [apiTimer EXCEPT ![k] = 0]
  /\ TimeoutCallback(k)
  /\ UNCHANGED <<ws, wsConnected, sockets, outbound, reconnectAttempts,
                 maxReconnectAttempts, reconnectTimers, closeLog,
                 promptHandlers, promptLog>>

\* onPrompt(handler) (index.ts 650-652); the handler is the caller's: it
\* returns, or it throws
OnPrompt(throws) ==
  /\ Len(promptHandlers) < MaxHandlers
  /\ promptHandlers' = Append(promptHandlers,
                              [id |-> Len(promptHandlers) + 1, throws |-> throws])
  /\ UNCHANGED <<ws, wsConnected, sockets, pendingRequests, apiTimer, api,
                 outbound, reconnectAttempts, maxReconnectAttempts,
                 reconnectTimers, closeLog, promptLog>>

(***************************************************************************)
(* Initial state: module load and `new EServerClient()`.                   *)
(***************************************************************************)
\* the client as constructed, with S the socket objects it may come to create
InitChannelOver(S) ==
  /\ ws = NoSocket
  /\ wsConnected = FALSE
  /\ sockets = [s \in S |-> "free"]
  /\ pendingRequests = [id \in RequestIds |-> NoCall]
  /\ apiTimer = [k \in ApiCalls |-> 0]
  /\ api = [k \in ApiCalls |-> IdleApi]
  /\ outbound = <<>>
  /\ reconnectAttempts = 0
  /\ maxReconnectAttempts = MaxReconnectAttempts
  /\ reconnectTimers = [d \in Delays |-> 0]
  /\ closeLog = <<>>
  /\ promptHandlers = <<>>
  /\ promptLog = <<>>
  /\ lastInbound = NoFrame
  /\ openLog = <<>>
  /\ idleConnects = 0

InitChannel == InitChannelOver(Sockets)

\* no file operation in flight
NoFileCall == [pc |-> "idle"]

\* the server's process: a setup file of any content, the key's override set
\* or not, and the singleton as getClient() builds it
InitDispatch ==
  /\ configFile \in
       {Stored([eserverUrl |-> Str("http://file:3030"), accessKey |-> Str(k),
                configured |-> Bool(b)]) : k \in {"", "key"}, b \in BOOLEAN}
  /\ envAccessKey \in {"", "envkey"}
  /\ envEServerUrl = ""
  /\ client = EServerClient("", "")
  /\ fileCall = NoFileCall
  /\ connectionApproved = FALSE
  /\ calls = [c \in Calls |-> IdleCall]

Init == InitDispatch /\ InitChannel

\* the client alone, in a process whose configuration is in place
InitClient ==
  /\ configFile =
       Stored([eserverUrl |-> Str("http://file:3030"), accessKey |-> Str("key"),
               configured |-> Bool(TRUE)])
  /\ envAccessKey = ""
  /\ envEServerUrl = ""
  /\ client = EServerClient("", "")
  /\ fileCall = NoFileCall
  /\ connectionApproved = FALSE
  /\ calls = [c \in Calls |-> IdleCall]
  /\ InitChannel

\* the dispatcher: server.ts never opens the channel, so the client stays
\* as constructed and callApi goes over HTTP
Next ==
  \/ \E c \in Calls : StartCall(c) /\ UNCHANGED <<libraryVars, channelVars>>
  \/ \E c \in Calls : PingReply(c) /\ UNCHANGED <<libraryVars, channelVars>>
  \/ \E c \in Calls : GetStatusReply(c) /\ UNCHANGED <<libraryVars, channelVars>>
  \/ \E c \in Calls : RequestConnectionReply(c) /\ UNCHANGED <<libraryVars, channelVars>>
  \/ \E c \in Calls : GetConnectionStatusReply(c) /\ UNCHANGED <<libraryVars, channelVars>>
  \/ \E c \in Calls : RemoteReply(c) /\ UNCHANGED <<libraryVars, channelVars>>
  \/ \E c \in Calls : Retire(c) /\ UNCHANGED <<libraryVars, channelVars>>

Spec == Init /\ [][Next]_vars

\* a resumption of call c: the Peer's answer to the request it awaits
Resume(c) ==
  /\ \/ PingReply(c) \/ GetStatusReply(c) \/ RequestConnectionReply(c)
     \/ GetConnectionStatusReply(c) \/ RemoteReply(c)
  /\ UNCHANGED <<libraryVars, channelVars>>

\* every fetch settles: the Peer answers, or the request fails
FairSpec == Spec /\ \A c \in Calls : WF_vars(Resume(c))

\* the delay a step has just put on the timer queue (0: none)
ScheduledDelay ==
  IF \E d \in Delays : reconnectTimers'[d] > reconnectTimers[d]
  THEN CHOOSE d \in Delays : reconnectTimers'[d] > reconnectTimers[d]
  ELSE 0

\* the answers to callApiViaHttp the channel's specifications draw from
ChannelHttpReplies ==
  {NetFail, HttpError,
   HttpOk([success |-> TRUE, result |-> Str("r"), error |-> Undefined]),
   HttpOk([success |-> FALSE, result |-> Undefined, error |-> Undefined])}

\* the socket's life: connects, opens, closes, reconnect timers, disconnect;
\* closeLog follows the closes since the last open, openLog the opens
NextReconnect ==
  \/ ConnectWebSocket /\ UNCHANGED <<lastInbound, openLog, idleConnects, dispatchVars>>
  \/ \E s \in Sockets :
       /\ Len(openLog) < MaxOpens
       /\ SocketOpen(s)
       /\ closeLog' = <<>>
       /\ openLog' = Append(openLog, reconnectAttempts)
       /\ UNCHANGED <<lastInbound, idleConnects, dispatchVars>>
  \/ \E s \in Sockets :
       /\ Len(closeLog) < MaxCloses
       /\ SocketClose(s)
       /\ closeLog' = Append(closeLog, ScheduledDelay)
       /\ UNCHANGED <<lastInbound, openLog, idleConnects, dispatchVars>>
  \/ \E d \in Delays :
       ReconnectTimerFire(d) /\ UNCHANGED <<lastInbound, openLog, idleConnects, dispatchVars>>
  \/ Disconnect /\ UNCHANGED <<lastInbound, openLog, idleConnects, dispatchVars>>

SpecReconnect == InitClient /\ [][NextReconnect]_vars

\* a step of the channel that handles no inbound frame
Quiet == lastInbound' = NoFrame /\ UNCHANGED <<openLog, idleConnects, dispatchVars>>

\* the channel with its calls: callers, sockets, the Peer's frames, timers
NextChannel ==
  \/ ConnectWebSocket /\ Quiet
  \/ \E s \in Sockets : SocketOpen(s) /\ UNCHANGED closeLog /\ Quiet
  \/ \E s \in Sockets : SocketClose(s) /\ UNCHANGED closeLog /\ Quiet
  \/ \E d \in Delays : ReconnectTimerFire(d) /\ Quiet
  \/ Disconnect /\ Quiet
  \/ \E k \in ApiCalls : CallApi(k) /\ Quiet
  \/ \E k \in ApiCalls : HttpApiReply(k, ChannelHttpReplies) /\ Quiet
  \/ \E k \in ApiCalls : ApiTimeoutFire(k) /\ Quiet
  \/ \E s \in Sockets :
       \E m \in ResponseFrames \cup {StatusFrame, MalformedFrame} :
         Receive(s, m) /\ lastInbound' = m /\ UNCHANGED <<openLog, idleConnects, dispatchVars>>

SpecChannel == InitClient /\ [][NextChannel]_vars

\* Node runs every timer that is due
FairChannel ==
  SpecChannel /\ \A k \in ApiCalls : WF_vars(ApiTimeoutFire(k) /\ Quiet)

(***************************************************************************)
(* Claims about the dispatcher (specification Spec).                       *)
(***************************************************************************)
Gated(call) ==
  call.pc # "idle" /\ call.name \notin {"circuitry.status", "circuitry.connect"}

LastReq(call) == call.reqs[Len(call.reqs)]

\* what the Peer's answer to /mcp/status reports
ReportsApproved(r) ==
  r.kind = "ok" /\ r.data.approved.t = "boolean" /\ r.data.approved.v

\* the call moved on to its name's branch
Routed(call) ==
  \/ call.pc = "remote" /\ LastReq(call).op \in RoutedOps
  \/ call.pc = "done" /\ call.envelope = errorResponse(TypeErrorText)

IsFailure(env) == "isError" \in DOMAIN env /\ env.isError = TRUE
IsSuccess(env) == DOMAIN env = {"text"} /\ env.text # <<>>

\* C1: a gated call that met a false gate and whose re-check the Peer
\* answered "not approved" has returned an error envelope and has issued
\* none of the routed operations.
C1_UnapprovedCallIsRefused ==
  \A c \in Calls :
    LET call == calls[c] IN
    (/\ Gated(call)
     /\ call.gate = "unapproved"
     /\ \E i \in DOMAIN call.reqs :
          /\ call.reqs[i].op = "getConnectionStatus"
          /\ call.reqs[i].reply # Unanswered
          /\ ~ReportsApproved(call.reqs[i].reply))
    => /\ call.pc = "done"
       /\ IsFailure(call.envelope)
       /\ call.envelope.text = <<"Error: ">> \o NotApprovedText
       /\ Ops(call) \cap RoutedOps = {}

C1_Witness ==
  \E c \in Calls :
    /\ calls[c].name = "agent.chat"
    /\ calls[c].pc = "done"
    /\ calls[c].gate = "unapproved"
    /\ Len(calls[c].reqs) = 2
    /\ calls[c].reqs[2].op = "getConnectionStatus"
    /\ calls[c].reqs[2].reply = HttpOk([approved |-> Bool(FALSE)])
    /\ IsFailure(calls[c].envelope)

\* C2: on an unconfigured server every call, whatever its name, ends with
\* the configuration-error envelope, no request goes to the Peer, and
\* connectionApproved keeps its initial value.
C2_UnconfiguredCallsTouchNothing ==
  ~isConfigured =>
    /\ connectionApproved = FALSE
    /\ \A c \in Calls :
         /\ calls[c].pc \in {"idle", "done"}
         /\ calls[c].reqs = <<>>
         /\ calls[c].pc = "done" =>
              /\ IsFailure(calls[c].envelope)
              /\ calls[c].envelope.text = <<"Error: ">> \o NotConfiguredText

C2_Witness ==
  /\ ~isConfigured
  /\ \E c \in Calls :
       /\ calls[c].pc = "done"
       /\ calls[c].name = "circuitry.connect"
       /\ IsFailure(calls[c].envelope)

\* C3: on a configured server every call sends a request, and the first
\* request of every call is the ping; a call whose ping fails ends at once
\* with the connectivity error, sends nothing more, and its step leaves
\* connectionApproved as it was.
C3_PingFirstAndFailureStops ==
  [][\A c \in Calls :
       /\ (isConfigured /\ calls'[c].pc # "idle") => calls'[c].reqs # <<>>
       /\ calls'[c].reqs # <<>> => calls'[c].reqs[1].op = "ping"
       /\ (/\ calls[c].pc = "ping"
           /\ calls'[c] # calls[c]
           /\ calls'[c].reqs[1].reply.kind # "ok")
          => /\ calls'[c].pc = "done"
             /\ IsFailure(calls'[c].envelope)
             /\ calls'[c].envelope.text = <<"Error: ">> \o CannotConnectText
             /\ Len(calls'[c].reqs) = 1
             /\ connectionApproved' = connectionApproved]_vars

C3_Witness ==
  /\ connectionApproved = TRUE
  /\ \E c \in Calls :
       /\ calls[c].pc = "done"
       /\ calls[c].name = "nodes.get"
       /\ Len(calls[c].reqs) = 1
       /\ calls[c].reqs[1].reply = NetFail
       /\ IsFailure(calls[c].envelope)

\* C4: no step of a circuitry.status call changes connectionApproved; the
\* call asks the Peer only for ping and status, never for permission, and
\* once the status request is answered it returns a success envelope.
C4_StatusLeavesGateAlone ==
  [][\A c \in Calls :
       (calls'[c] # calls[c] /\ calls'[c].name = "circuitry.status")
       => /\ connectionApproved' = connectionApproved
          /\ Ops(calls'[c]) \subseteq {"ping", "getStatus"}
          /\ calls[c].pc = "getStatus" =>
               /\ calls'[c].pc = "done"
               /\ IsSuccess(calls'[c].envelope)]_vars

C4_Witness ==
  /\ connectionApproved = FALSE
  /\ \E c \in Calls :
       /\ calls[c].pc = "done"
       /\ calls[c].name = "circuitry.status"
       /\ Len(calls[c].reqs) = 2
       /\ calls[c].reqs[2].reply.kind = "ok"
       /\ IsSuccess(calls[c].envelope)

AlreadyApprovedEnvelope ==
  successResponse(Obj([approved |-> Bool(TRUE),
                       message |-> Str("Already connected and approved")]))

\* C5: when a circuitry.connect call gets past its ping, it sends the
\* connection request exactly if connectionApproved is false then; if it is
\* true the call ends at once with approved=true, sends no connection
\* request, and leaves connectionApproved true.
C5_ConnectAsksOnlyWhenUnapproved ==
  [][\A c \in Calls :
       (/\ calls[c].pc = "ping"
        /\ calls[c].name = "circuitry.connect"
        /\ calls'[c] # calls[c]
        /\ calls'[c].reqs[1].reply.kind = "ok")
       => IF connectionApproved
          THEN /\ calls'[c].pc = "done"
               /\ calls'[c].envelope = AlreadyApprovedEnvelope
               /\ "requestConnection" \notin Ops(calls'[c])
               /\ connectionApproved'
          ELSE /\ calls'[c].pc = "requestConnection"
               /\ CountOp(calls'[c], "requestConnection") = 1
               /\ LastReq(calls'[c]).op = "requestConnection"]_vars

C5_Witness ==
  /\ connectionApproved = TRUE
  /\ \E c \in Calls :
       /\ calls[c].pc = "done"
       /\ calls[c].name = "circuitry.connect"
       /\ calls[c].envelope = AlreadyApprovedEnvelope
       /\ Len(calls[c].reqs) = 1

\* what the Peer's answer to /mcp/connect reports: its approved field on a
\* success status, and "not approved" on any failure
ConnectReport(r) == r.kind = "ok" /\ r.data.approved

\* C6: the step that takes the Peer's answer to a connection request sets
\* connectionApproved to the approved value the Peer reported (false on a
\* non-success status or a transport failure) and returns a success
\* envelope whose approved field is that same value.
C6_GateAdoptsPeerAnswer ==
  [][\A c \in Calls :
       (calls[c].pc = "requestConnection" /\ calls'[c] # calls[c])
       => LET reported == ConnectReport(LastReq(calls'[c]).reply) IN
          /\ calls'[c].pc = "done"
          /\ connectionApproved' = reported
          /\ IsSuccess(calls'[c].envelope)
          /\ calls'[c].envelope.text[2].approved = Bool(reported)]_vars

C6_Witness ==
  \E c \in Calls :
    /\ calls[c].pc = "done"
    /\ calls[c].name = "circuitry.connect"
    /\ Len(calls[c].reqs) = 2
    /\ calls[c].reqs[2].reply = HttpError
    /\ connectionApproved = FALSE
    /\ calls[c].envelope.text[2].approved = Bool(FALSE)

\* C7: a gated call that gets past its ping with connectionApproved false
\* sends one re-check and waits; with connectionApproved true it sends none
\* and is routed.  When the re-check reports approved, connectionApproved
\* becomes true and the call is routed; otherwise the call fails with the
\* permission error.  No call ever sends more than one re-check.
C7_OneLazyRecheck ==
  [][\A c \in Calls :
       /\ CountOp(calls'[c], "getConnectionStatus") <= 1
       /\ (/\ calls[c].pc = "ping"
           /\ Gated(calls[c])
           /\ calls'[c] # calls[c]
           /\ calls'[c].reqs[1].reply.kind = "ok")
          => IF connectionApproved
             THEN /\ "getConnectionStatus" \notin Ops(calls'[c])
                  /\ Routed(calls'[c])
             ELSE /\ calls'[c].pc = "getConnectionStatus"
                  /\ LastReq(calls'[c]).op = "getConnectionStatus"
       /\ (calls[c].pc = "getConnectionStatus" /\ calls'[c] # calls[c])
          => IF ReportsApproved(calls'[c].reqs[2].reply)
             THEN /\ connectionApproved'
                  /\ Routed(calls'[c])
             ELSE /\ calls'[c].pc = "done"
                  /\ calls'[c].envelope.text = <<"Error: ">> \o NotApprovedText
                  /\ IsFailure(calls'[c].envelope)
                  /\ connectionApproved' = connectionApproved]_vars

C7_Witness ==
  /\ connectionApproved = TRUE
  /\ \E c \in Calls :
       /\ calls[c].pc = "remote"
       /\ calls[c].name = "code.createBatch"
       /\ calls[c].gate = "unapproved"
       /\ Len(calls[c].reqs) = 3
       /\ calls[c].reqs[2].op = "getConnectionStatus"
       /\ calls[c].reqs[3].op = "createCodeNodesFromFiles"

(***************************************************************************)
(* Claims about the channel (SpecChannel, FairChannel, SpecReconnect).     *)
(***************************************************************************)
\* how a response frame's payload settles the call it is for
FrameOutcome(payload) ==
  IF payload.success
  THEN [throw |-> FALSE, value |-> payload.result]
  ELSE [throw |-> TRUE,
        message |-> IF payload.error.t = "string" /\ payload.error.v # ""
                    THEN <<payload.error.v>>
                    ELSE <<"Unknown error">>]

InFlight(k) == api[k].state = "pending" /\ api[k].via = "ws"

\* C8: when a response frame bearing requestId r is handled, the call in
\* flight that is registered under r is settled with that frame's outcome
\* (resolved with its result on success, rejected with its error otherwise)
\* and every other call is left exactly as it was, whatever the order in
\* which calls were made and frames arrive.
C8_ResponseSettlesItsOwnCall ==
  [][\A m \in ResponseFrames :
       lastInbound' = m =>
         LET owner == pendingRequests[m.payload.requestId] IN
         /\ \A k \in ApiCalls \ {owner} : api'[k] = api[k]
         /\ (owner # NoCall /\ InFlight(owner))
            => /\ api'[owner].state =
                    IF m.payload.success THEN "resolved" ELSE "rejected"
               /\ api'[owner].outcome = FrameOutcome(m.payload)
               /\ pendingRequests'[m.payload.requestId] = NoCall]_vars

\* two calls in flight, the later one answered first
C8_Witness ==
  \E k, j \in ApiCalls :
    /\ Len(outbound) = 2
    /\ outbound[1].type = "api_request" /\ outbound[2].type = "api_request"
    /\ api[k].id = outbound[1].requestId
    /\ api[j].id = outbound[2].requestId
    /\ api[k].id # api[j].id
    /\ InFlight(k)
    /\ api[j].state = "resolved"
    /\ lastInbound.type = "api_response"
    /\ lastInbound.payload.requestId = api[j].id

TimedOut(k) ==
  /\ api[k].state = "rejected"
  /\ api[k].outcome = [throw |-> TRUE, message |-> <<"API call timeout">>]

\* C9: a call in flight on the channel is eventually settled: by a response
\* frame, or else by its timer, which rejects it with the timeout error;
\* and a call its timer has rejected has no entry in pendingRequests.
C9_UnansweredCallTimesOut ==
  /\ \A k \in ApiCalls :
       InFlight(k) ~> (api[k].by.type = "api_response" \/ TimedOut(k))
  /\ [](\A k \in ApiCalls :
          TimedOut(k) => \A id \in RequestIds : pendingRequests[id] # k)

\* a call sent on the open socket, never answered, rejected by its timer
C9_Witness ==
  \E k \in ApiCalls :
    /\ TimedOut(k)
    /\ api[k].via = "ws"
    /\ api[k].by = TimeoutFrame
    /\ apiTimer[k] = 0
    /\ pendingRequests[api[k].id] = NoCall
    /\ \E i \in DOMAIN outbound :
         outbound[i].type = "api_request" /\ outbound[i].requestId = api[k].id

BackoffDelays == <<1000, 2000, 4000, 8000, 16000>>

\* C10: of the closes since the last successful open, the n-th (n = 1..5)
\* schedules a reconnect after 1000 * 2^(n-1) ms unless reconnection has
\* been switched off, in which case it schedules none; the 6th and later
\* closes schedule none.
C10_BackoffSchedule ==
  \A n \in DOMAIN closeLog :
    /\ n <= 5 =>
         /\ closeLog[n] \in {0, BackoffDelays[n]}
         /\ maxReconnectAttempts = MaxReconnectAttempts => closeLog[n] = BackoffDelays[n]
    /\ n >= 6 => closeLog[n] = 0

C10_Witness ==
  /\ closeLog = <<1000, 2000, 4000, 8000, 16000, 0>>
  /\ maxReconnectAttempts = MaxReconnectAttempts
  /\ reconnectAttempts = 5
  /\ PendingTimers = 0

(***************************************************************************)
(* Claims about the socket's life after disconnect() and after an open     *)
(* (SpecReconnect).                                                        *)
(***************************************************************************)
\* disconnect() has been invoked: nothing else writes maxReconnectAttempts
DisconnectInvoked == maxReconnectAttempts = 0

\* the step is a reconnect timer's callback
TimerFired == \E d \in Delays : reconnectTimers'[d] < reconnectTimers[d]

\* C11: once disconnect() has been invoked, no later close schedules a
\* reconnect, and no reconnect timer that fires creates a socket or changes
\* the handle: the channel stays as disconnect() left it until
\* connectWebSocket is invoked explicitly.
C11_NoReconnectAfterDisconnect ==
  [][DisconnectInvoked =>
       /\ \A d \in Delays : reconnectTimers'[d] <= reconnectTimers[d]
       /\ TimerFired => (ws' = ws /\ sockets' = sockets)]_vars

\* the step is an open handler's
Opened == \E s \in Sockets : sockets[s] = "connecting" /\ sockets'[s] = "open"

\* C12: every open resets reconnectAttempts to 0; with reconnection not
\* switched off, the first close after an open schedules a reconnect at
\* 1000 ms and the closes after any open follow the full backoff again;
\* at 5 used attempts no step schedules a further reconnect.
C12_OpenResetsBackoff ==
  [][/\ Opened => reconnectAttempts' = 0
     /\ (/\ openLog # <<>>
         /\ maxReconnectAttempts' = MaxReconnectAttempts
         /\ closeLog = <<>> /\ Len(closeLog') = 1)
        => closeLog'[1] = reconnectDelay
     /\ (openLog' # <<>> /\ maxReconnectAttempts' = MaxReconnectAttempts)
        => \A n \in DOMAIN closeLog' :
             closeLog'[n] = IF n <= 5 THEN BackoffDelays[n] ELSE 0
     /\ reconnectAttempts = MaxReconnectAttempts
        => \A d \in Delays : reconnectTimers'[d] <= reconnectTimers[d]]_vars

\* the backoff was used up, a later connect opened, and five closes since
\* then have each scheduled their reconnect
C12_Witness ==
  /\ \E i \in DOMAIN openLog : openLog[i] = MaxReconnectAttempts
  /\ closeLog = <<1000, 2000, 4000, 8000, 16000>>
  /\ maxReconnectAttempts = MaxReconnectAttempts
  /\ reconnectAttempts = 5

(***************************************************************************)
(* Claims about explicit connects and the choice of transport              *)
(* (SpecConnect).                                                          *)
(***************************************************************************)
\* the state connectWebSocket returns early in: a handle, and the flag set
Connected == ws # NoSocket /\ wsConnected

\* a step of SpecConnect that is no connectWebSocket invocation (inbound
\* frames are handled but not remembered)
Still == lastInbound' = NoFrame /\ UNCHANGED <<openLog, idleConnects, dispatchVars>>

\* the one callApi invocation SpecConnect follows
FirstCall == 1

\* the channel with one caller: explicit connects (counted when they find
\* the channel connected), opens, closes, timers, disconnect, the call, its
\* HTTP answer, its timer, and the Peer's frames
NextConnect ==
  \/ /\ Connected => idleConnects < MaxIdleConnects
     /\ ConnectWebSocket
     /\ idleConnects' = IF Connected THEN idleConnects + 1 ELSE idleConnects
     /\ lastInbound' = NoFrame
     /\ UNCHANGED <<openLog, dispatchVars>>
  \/ \E s \in Sockets : SocketOpen(s) /\ UNCHANGED closeLog /\ Still
  \/ \E s \in Sockets : SocketClose(s) /\ UNCHANGED closeLog /\ Still
  \/ \E d \in Delays : ReconnectTimerFire(d) /\ Still
  \/ Disconnect /\ Still
  \/ CallApi(FirstCall) /\ Still
  \/ HttpApiReply(FirstCall, ApiReplies) /\ Still
  \/ ApiTimeoutFire(FirstCall) /\ Still
  \/ \E s \in Sockets :
       \E m \in RelayFrames \cup {StatusFrame, MalformedFrame} :
         Receive(s, m) /\ Still

SpecConnect == InitClient /\ [][NextConnect]_vars

\* the pong frames sent so far
Pongs == {i \in DOMAIN outbound : outbound[i].type = "pong"}

\* every kind of frame the Peer may push: responses, prompts, pings, a kind
\* the client does not know, and data that does not parse
InboundFrames ==
  {ApiResponse(id, [success |-> TRUE, result |-> Str("r"), error |-> Undefined]) :
     id \in RequestIds}
    \cup PromptFrames \cup {PingFrame, StatusFrame, MalformedFrame}

\* the channel with its observers: one caller, prompt handlers, and every
\* kind of inbound frame
NextFrames ==
  \/ ConnectWebSocket /\ Quiet
  \/ \E s \in Sockets : SocketOpen(s) /\ UNCHANGED closeLog /\ Quiet
  \/ \E s \in Sockets : SocketClose(s) /\ UNCHANGED closeLog /\ Quiet
  \/ \E d \in Delays : ReconnectTimerFire(d) /\ Quiet
  \/ Disconnect /\ Quiet
  \/ \E t \in BOOLEAN : OnPrompt(t) /\ Quiet
  \/ CallApi(FirstCall) /\ Quiet
  \/ ApiTimeoutFire(FirstCall) /\ Quiet
  \/ \E s \in Sockets : \E m \in InboundFrames :
       /\ Len(promptLog) < MaxPromptLog
       /\ Cardinality(Pongs) < MaxPongs
       /\ Receive(s, m)
       /\ lastInbound' = m
       /\ UNCHANGED <<openLog, idleConnects, dispatchVars>>

SpecFrames == InitClient /\ [][NextFrames]_vars

\* C13: a connectWebSocket invocation that finds the channel connected
\* creates no socket and leaves the handle, wsConnected, reconnectAttempts,
\* pendingRequests and the timers as they were, however often it is repeated.
C13_ConnectIsIdempotent ==
  [][idleConnects' # idleConnects =>
       /\ Connected
       /\ UNCHANGED <<ws, wsConnected, sockets, reconnectAttempts,
                      maxReconnectAttempts, pendingRequests, apiTimer, api,
                      outbound, reconnectTimers>>]_vars

\* two invocations in a row on a connected channel with a call in flight
C13_Witness ==
  /\ idleConnects = 2
  /\ Connected
  /\ sockets[ws] = "open"
  /\ \E id \in RequestIds : pendingRequests[id] # NoCall

\* the step is the invocation of call k
Issued(k) == api[k].state = "idle" /\ api'[k].state # "idle"

\* C14: a call takes the socket exactly if the channel is connected when it
\* is made, and the HTTP request otherwise; it transmits once, on that
\* transport (nothing at all when the socket's send throws); afterwards its
\* transport never changes and no step transmits for it again, whatever
\* happens to the socket.
C14_TransportChosenOnce ==
  [][/\ \A k \in ApiCalls :
          /\ Issued(k) =>
               IF Connected
               THEN /\ api'[k].via = "ws"
                    /\ \/ outbound' = outbound /\ api'[k].state = "rejected"
                       \/ /\ Len(outbound') = Len(outbound) + 1
                          /\ outbound'[Len(outbound')].type = "api_request"
                          /\ outbound'[Len(outbound')].requestId = api'[k].id
               ELSE /\ api'[k].via = "http"
                    /\ outbound' = Append(outbound, [type |-> "http", requestId |-> 0,
                                                     socket |-> NoSocket])
                    /\ UNCHANGED <<pendingRequests, apiTimer>>
          /\ api[k].via # "none" => api'[k].via = api[k].via
     /\ outbound' # outbound => \E k \in ApiCalls : Issued(k)]_vars

\* a call sent on the socket, the socket closed since, the call timed out:
\* one transmission, none over HTTP
C14_Witness ==
  /\ api[FirstCall].via = "ws"
  /\ TimedOut(FirstCall)
  /\ ws = NoSocket /\ ~wsConnected
  /\ Len(outbound) = 1
  /\ outbound[1].type = "api_request"

\* the Peer's envelope in an api_response payload
Envelope(p) == [success |-> p.success, result |-> p.result, error |-> p.error]

\* C15: a call the Peer answered with an envelope is settled the same way
\* on either transport: a call settled by a response frame has the outcome
\* callApiViaHttp gives for the frame's envelope, a call settled by an HTTP
\* answer has the outcome the socket's resolve closure gives for the
\* answer's envelope, and that outcome is the envelope's result on success
\* and its error, or 'Unknown error' when that is empty or absent, on failure.
C15_TransportsAgree ==
  \A k \in ApiCalls :
    /\ api[k].by.type = "api_response" =>
         /\ api[k].outcome = callApiViaHttp(HttpOk(Envelope(api[k].by.payload)))
         /\ api[k].outcome = FrameOutcome(api[k].by.payload)
    /\ (api[k].by.type = "http" /\ api[k].by.payload.kind = "ok") =>
         /\ api[k].outcome = WsOutcome(api[k].by.payload.data)
         /\ api[k].outcome = FrameOutcome(api[k].by.payload.data)

\* a call the socket answered with a failure envelope whose error is empty
C15_Witness ==
  /\ api[FirstCall].via = "ws"
  /\ api[FirstCall].by.type = "api_response"
  /\ ~api[FirstCall].by.payload.success
  /\ api[FirstCall].by.payload.error = Str("")
  /\ api[FirstCall].outcome = Throw(<<"Unknown error">>)

(***************************************************************************)
(* Claims about the envelopes and the routing of tool calls (Spec,         *)
(* FairSpec).                                                              *)
(***************************************************************************)
\* the positions of a call: idle, awaiting an answer, or returned
Positions ==
  {"idle", "ping", "getStatus", "requestConnection", "getConnectionStatus",
   "remote", "done"}

\* C16: a call is always idle, awaiting the Peer, or returned, and never
\* left by a thrown error; a call that was started returns; it has an
\* envelope exactly when it has returned, and that envelope is the success
\* variant (no isError) or the failure variant (isError true, text 'Error: '
\* followed by a message), and stays as it is until the slot is reused; an
\* error thrown by the routed operation or by reading missing arguments is
\* returned as the failure envelope with its message.
C16_OneEnvelopePerCall ==
  /\ [](\A c \in Calls :
          LET call == calls[c] IN
          /\ call.pc \in Positions
          /\ (call.pc # "done") = (call.envelope = NoEnvelope)
          /\ call.pc = "done" =>
               /\ IsSuccess(call.envelope) # IsFailure(call.envelope)
               /\ IsFailure(call.envelope) =>
                    /\ DOMAIN call.envelope = {"text", "isError"}
                    /\ Len(call.envelope.text) >= 2
                    /\ call.envelope.text[1] = "Error: ")
  /\ [][\A c \in Calls :
          /\ calls[c].pc = "done" => calls'[c] \in {calls[c], IdleCall}
          /\ (/\ calls[c].pc = "remote" /\ calls'[c] # calls[c]
              /\ RemoteResult(LastReq(calls[c]), LastReq(calls'[c]).reply).throw)
             => calls'[c].envelope =
                  errorResponse(RemoteResult(LastReq(calls[c]),
                                             LastReq(calls'[c]).reply).message)
          /\ (/\ calls[c].pc \in {"ping", "getConnectionStatus"}
              /\ calls'[c].pc = "done"
              /\ calls'[c].args = Undefined
              /\ calls'[c].name = "agent.poll"
              /\ calls'[c].gate # "unread"
              /\ (calls'[c].gate = "unapproved"
                    => ReportsApproved(LastReq(calls'[c]).reply)))
             => calls'[c].envelope = errorResponse(TypeErrorText)]_vars
  /\ \A c \in Calls : (calls[c].pc # "idle") ~> (calls[c].pc = "done")

\* a call without arguments whose destructuring threw, returned as an error
C16_Witness ==
  \E c \in Calls :
    /\ calls[c].pc = "done"
    /\ calls[c].name = "agent.poll"
    /\ calls[c].args = Undefined
    /\ calls[c].envelope = errorResponse(TypeErrorText)


\* the Peer's answer to a routed request reports a failure: a transport
\* failure, a non-success status, or an envelope with success false
RemoteFailed(req) ==
  \/ req.reply.kind # "ok"
  \/ req.op = "callApi" /\ ~req.reply.data.success

\* the message the Peer gave with a failure: the fetch error's message, the
\* body of a non-success status, or the envelope's error
PeerMessage(r) ==
  CASE r.kind = "netfail" -> r.message
    [] r.kind = "status" -> r.body
    [] OTHER -> OrElse(r.data.error, Str("Unknown error")).v

\* C17: a returned call whose routed operation (circuitry.connect's request
\* and agent.poll's poll included) was answered with a failure has the
\* failure envelope, and its text carries the Peer's message.
C17_RemoteFailureIsErrorEnvelope ==
  \A c \in Calls :
    (/\ calls[c].pc = "done"
     /\ calls[c].reqs # <<>>
     /\ LastReq(calls[c]).op \in RoutedOps \cup {"requestConnection"}
     /\ RemoteFailed(LastReq(calls[c])))
    => /\ IsFailure(calls[c].envelope)
       /\ \E i \in DOMAIN calls[c].envelope.text :
            calls[c].envelope.text[i] = PeerMessage(LastReq(calls[c]).reply)


\* the payload of a relayed call that succeeded: the result of the Peer's
\* envelope
RelayedResult(call) == LastReq(call).reply.data.result

\* a generic relay call that returned the Peer's result as it came
RelayedPlain(call) ==
  /\ call.pc = "done"
  /\ call.name \in {"nodes.get", "sheet.setData"}
  /\ call.reqs # <<>>
  /\ LastReq(call).op = "callApi"
  /\ ~RemoteFailed(LastReq(call))

\* C18: the text of a success envelope is never empty, and a relayed result
\* that is undefined, null or the empty string is returned as the text
\* 'Success (no return value)'.
C18_SuccessTextNonEmpty ==
  \A c \in Calls :
    /\ (calls[c].pc = "done" /\ ~IsFailure(calls[c].envelope))
         => \E i \in DOMAIN calls[c].envelope.text : calls[c].envelope.text[i] # ""
    /\ (RelayedPlain(calls[c])
        /\ RelayedResult(calls[c]) \in {Undefined, Null, Str("")})
         => calls[c].envelope.text = <<"Success (no return value)">>


\* the names server.ts routes to an operation of their own
OwnBranch ==
  {"agent.chat", "agent.createFlowchart", "agent.poll", "code.create",
   "code.createBatch"}

\* the workflow names server.ts matches literally
WorkflowTools ==
  {"workflow.getActive", "workflow.getStructure", "workflow.resolveFlow",
   "workflow.getNodeSummary"}

\* the call got past the permission gate and issued its routed request
Sent(call) == call.reqs # <<>> /\ LastReq(call).op \in RoutedOps

\* {}
EmptyObject == Obj([none |-> Undefined])

C20_CodeCreateRouting ==
  \A c \in Calls :
    LET call == calls[c]
        args == call.args
    IN
    (Gated(call) /\ Sent(call)) =>
      /\ (call.name = "code.create" /\ Truthy(Field(args, "filePath"))) =>
           /\ LastReq(call).op = "createCodeNodeFromFile"
           /\ LastReq(call).arg = [filePath |-> Field(args, "filePath"),
                                   name |-> Field(args, "name"),
                                   position |-> Field(args, "position")]
           /\ Ops(call) \cap RoutedOps = {"createCodeNodeFromFile"}
           /\ CountOp(call, "createCodeNodeFromFile") = 1
      /\ (call.name = "code.create" /\ ~Truthy(Field(args, "filePath"))) =>
           /\ LastReq(call).op = "callApi"
           /\ LastReq(call).arg =
                [method |-> "code.create",
                 args |-> Obj([name |-> Field(args, "name"),
                               content |-> Field(args, "content"),
                               position |-> Field(args, "position")])]
           /\ Ops(call) \cap RoutedOps = {"callApi"}
           /\ CountOp(call, "callApi") = 1
      /\ call.name = "code.createBatch" =>
           /\ LastReq(call).op = "createCodeNodesFromFiles"
           /\ LastReq(call).arg = [filePaths |-> Field(args, "filePaths"),
                                   layout |-> Field(args, "layout")]
           /\ Ops(call) \cap RoutedOps = {"createCodeNodesFromFiles"}
           /\ CountOp(call, "createCodeNodesFromFiles") = 1

\* code.create with a filePath and a content, returned with the Peer's node id
C20_Witness ==
  \E c \in Calls :
    /\ calls[c].pc = "done"
    /\ calls[c].name = "code.create"
    /\ Field(calls[c].args, "filePath") = Str("/a/b.ts")
    /\ Field(calls[c].args, "content") = Str("x")
    /\ calls[c].reqs # <<>>
    /\ LastReq(calls[c]).op = "createCodeNodeFromFile"
    /\ calls[c].envelope = successResponse(Str("node1"))


(***************************************************************************)
(* Claims about retries, abandoned calls and inbound frames.               *)
(***************************************************************************)
\* the request was answered, and the answer reports a failure
AnsweredFailed(req) ==
  \/ req.reply.kind \in {"netfail", "status"}
  \/ req.op = "callApi" /\ req.reply.kind = "ok" /\ ~req.reply.data.success

\* the requests a call issues to ask for, or re-check, the permission
PermissionOps == {"requestConnection", "getConnectionStatus"}

\* no request of the call is a second attempt: one ping at most, one
\* permission request or re-check at most, one routed operation at most
NoSecondAttempt(call) ==
  /\ CountOp(call, "ping") <= 1
  /\ Cardinality({i \in DOMAIN call.reqs : call.reqs[i].op \in PermissionOps}) <= 1
  /\ Cardinality({i \in DOMAIN call.reqs : call.reqs[i].op \in RoutedOps}) <= 1

\* C21: a tool call issues at most one ping, at most one permission request
\* or re-check and at most one routed operation, and a ping, permission
\* request, re-check or routed operation that failed is the call's last
\* request: the call has returned, with a failure envelope.
C21_NoRetryFailureEnds ==
  \A c \in Calls :
    /\ NoSecondAttempt(calls[c])
    /\ \A i \in DOMAIN calls[c].reqs :
         (/\ calls[c].reqs[i].op \in {"ping"} \cup PermissionOps \cup RoutedOps
          /\ AnsweredFailed(calls[c].reqs[i]))
         => /\ i = Len(calls[c].reqs)
            /\ calls[c].pc = "done"
            /\ IsFailure(calls[c].envelope)


\* this step is an invocation of disconnect() (one that changes anything)
DisconnectStep ==
  /\ maxReconnectAttempts' = 0 /\ ws' = NoSocket /\ ~wsConnected'
  /\ \/ maxReconnectAttempts # 0
     \/ \E s \in Sockets :
          sockets[s] \in {"connecting", "open"}
            /\ sockets'[s] \in {"closing", "aborting"}

\* this step is a socket's close event
Closed == \E s \in Sockets : sockets[s] # "free" /\ sockets'[s] = "free"

\* C22: disconnect() and a socket's close event leave pendingRequests, the
\* calls' timeout timers and the calls' promises exactly as they were.
C22_DisconnectAbandonsPending ==
  [][(DisconnectStep \/ Closed) => UNCHANGED <<pendingRequests, apiTimer, api>>]_vars

\* a call in flight, still registered with its timer running, after
\* disconnect() and the close event of its socket
C22_Witness ==
  /\ maxReconnectAttempts = 0
  /\ \A s \in Sockets : sockets[s] = "free"
  /\ InFlight(FirstCall)
  /\ pendingRequests[api[FirstCall].id] = FirstCall
  /\ apiTimer[FirstCall] = ApiTimeout


\* a call that has been settled, either way
Settled(k) == api[k].state \in {"resolved", "rejected"}

\* C23: an entry of pendingRequests is eventually removed and its call
\* settled, whatever closes, reconnects and disconnects happen meanwhile;
\* an entry is removed only by a response frame bearing its requestId or by
\* the timeout of a call registered under it, and a call in flight is
\* settled only by a response frame or by its own timeout.
C23_PendingCallEndsByResponseOrTimeout ==
  /\ \A id \in RequestIds : \A k \in ApiCalls :
       (pendingRequests[id] = k) ~> (pendingRequests[id] # k /\ Settled(k))
  /\ [][\A id \in RequestIds :
          (pendingRequests[id] # NoCall /\ pendingRequests'[id] = NoCall)
          => \/ /\ lastInbound'.type = "api_response"
                /\ lastInbound'.payload.requestId = id
             \/ \E k \in ApiCalls :
                  api[k].id = id /\ apiTimer[k] # 0 /\ apiTimer'[k] = 0]_vars
  /\ [][\A k \in ApiCalls :
          (InFlight(k) /\ api'[k] # api[k])
          => \/ /\ api'[k].by.type = "api_response"
                /\ api'[k].by.payload.requestId = api[k].id
                /\ lastInbound' = api'[k].by
             \/ /\ api'[k].by = TimeoutFrame
                /\ apiTimer[k] # 0 /\ apiTimer'[k] = 0]_vars

\* a call sent over the socket and rejected by its own timeout, its entry
\* gone, on a client that was disconnected and whose sockets have closed
C23_Witness ==
  \E k \in ApiCalls :
    /\ api[k].via = "ws"
    /\ api[k].by = TimeoutFrame
    /\ TimedOut(k)
    /\ \A id \in RequestIds : pendingRequests[id] = NoCall
    /\ maxReconnectAttempts = 0
    /\ \A s \in Sockets : sockets[s] = "free"


\* C24 as stated: on a client that has been disconnected, a call in flight
\* stays in flight: no step resolves it and no step rejects it.
C24_AbandonedCallNeverSettles ==
  [][\A k \in ApiCalls : (DisconnectInvoked /\ InFlight(k)) => InFlight(k)']_vars

\* C24, amended: on a client that has been disconnected, a call in flight
\* is eventually settled, and the step that settles it is the call's own
\* timeout, rejecting it with 'API call timeout', or a response frame
\* bearing its requestId that still arrives.
C24_AbandonedCallSettlesByTimeoutOrResponse ==
  /\ \A k \in ApiCalls : (DisconnectInvoked /\ InFlight(k)) ~> Settled(k)
  /\ [][\A k \in ApiCalls :
          (DisconnectInvoked /\ InFlight(k) /\ api'[k] # api[k])
          => \/ /\ api'[k].by = TimeoutFrame
                /\ api'[k].state = "rejected"
                /\ api'[k].outcome = Throw(<<"API call timeout">>)
             \/ /\ api'[k].by.type = "api_response"
                /\ api'[k].by.payload.requestId = api[k].id
                /\ api'[k].outcome = WsOutcome(api'[k].by.payload)]_vars

\* a call answered after disconnect(): the response frame just handled came
\* in on the socket disconnect() is closing, and resolved the call
C24_Witness ==
  \E k \in ApiCalls : \E s \in Sockets :
    /\ DisconnectInvoked
    /\ sockets[s] = "closing"
    /\ api[k].via = "ws"
    /\ api[k].state = "resolved"
    /\ lastInbound.type = "api_response"
    /\ api[k].by = lastInbound


\* the connection state: the handle, the flag, the socket objects and the
\* reconnect bookkeeping
connectionState ==
  <<ws, wsConnected, sockets, reconnectAttempts, maxReconnectAttempts,
    reconnectTimers>>

\* C25: the step that handles a prompt frame invokes every registered
\* handler once, in registration order, with the frame's payload, and
\* changes no pending call and nothing of the connection state; handlers
\* are only ever added, at the end.
C25_PromptReachesEveryObserver ==
  [][/\ \A m \in PromptFrames :
          lastInbound' = m =>
            /\ promptLog' = promptLog \o [i \in DOMAIN promptHandlers |->
                                            <<promptHandlers[i].id, m.payload.id>>]
            /\ UNCHANGED <<promptHandlers, pendingRequests, apiTimer, api,
                           connectionState>>
     /\ Len(promptHandlers') >= Len(promptHandlers)
     /\ \A i \in DOMAIN promptHandlers : promptHandlers'[i] = promptHandlers[i]]_vars


\* the pong frame as it is sent on socket s: no requestId, no payload
Pong(s) == [type |-> "pong", requestId |-> 0, socket |-> s]

\* C26 as stated: the step that handles a ping frame sends one pong frame,
\* and changes neither pendingRequests nor the connection state.
C26_EveryPingIsAnswered ==
  [][lastInbound' = PingFrame =>
       /\ Len(outbound') = Len(outbound) + 1
       /\ outbound'[Len(outbound')].type = "pong"
       /\ outbound'[Len(outbound')].requestId = 0
       /\ UNCHANGED <<pendingRequests, apiTimer, api, connectionState>>]_vars

\* C26, amended: the step that handles a ping frame sends one pong frame, on
\* the socket the handle names, if the handle names an open socket; it sends
\* nothing if the handle is null or names a socket that is not open; either
\* way it changes neither pendingRequests nor the connection state.
C26_PingIsAnsweredOnTheHandle ==
  [][lastInbound' = PingFrame =>
       /\ outbound' = IF ws # NoSocket /\ sockets[ws] = "open"
                      THEN Append(outbound, Pong(ws))
                      ELSE outbound
       /\ UNCHANGED <<pendingRequests, apiTimer, api, connectionState>>]_vars

\* a ping just handled on the open socket, and the pong sent on it
C26_Witness ==
  /\ lastInbound = PingFrame
  /\ Connected
  /\ sockets[ws] = "open"
  /\ outbound # <<>>
  /\ outbound[Len(outbound)] = Pong(ws)


\* a frame the client has no use for: data that does not parse, a kind it
\* does not know, or a response whose requestId has no entry
Useless(m) ==
  \/ m.type \notin {"api_response", "prompt", "ping"}
  \/ m.type = "api_response" /\ pendingRequests[m.payload.requestId] = NoCall

\* C27: the step that handles a malformed frame, a frame of an unknown kind
\* or a response frame whose requestId has no entry changes nothing:
\* pendingRequests, the timers and every call stay as they were (no call is
\* settled, none is rejected), as do the connection state with the reconnect
\* counter, the frames sent and the observers.
C27_UselessFramesChangeNothing ==
  [][\A m \in InboundFrames :
       (lastInbound' = m /\ Useless(m))
       => UNCHANGED <<pendingRequests, apiTimer, api, connectionState, outbound,
                      promptHandlers, promptLog>>]_vars

\* a call in flight, and a response frame for another requestId just handled
C27_Witness ==
  /\ InFlight(FirstCall)
  /\ pendingRequests[api[FirstCall].id] = FirstCall
  /\ apiTimer[FirstCall] = ApiTimeout
  /\ lastInbound.type = "api_response"
  /\ lastInbound.payload.requestId # api[FirstCall].id


\* this step registers call k under requestId id
Registers(k, id) == pendingRequests'[id] = k /\ api[k].state = "idle"

\* C28: no two calls made over the channel bear the same requestId, and the
\* step that registers a call finds no entry under its requestId.
C28_RequestIdsUnique ==
  /\ [](\A k, j \in ApiCalls :
          (k # j /\ api[k].via = "ws" /\ api[j].via = "ws") => api[k].id # api[j].id)
  /\ [][\A k \in ApiCalls : \A id \in RequestIds :
          Registers(k, id) => pendingRequests[id] = NoCall]_vars


\* C29: whatever the Peer's answer to the ping, the call goes on from it
\* without a thrown error; it passes the liveness check exactly when the
\* answer has a success status, and returns the connectivity error on a
\* non-success status and on a transport failure.
C29_PingIsTrueExactlyOnSuccess ==
  [][\A c \in Calls :
       (calls[c].pc = "ping" /\ calls'[c] # calls[c])
       => LET answer == calls'[c].reqs[1].reply
              refused == /\ calls'[c].pc = "done"
                         /\ Len(calls'[c].reqs) = 1
                         /\ calls'[c].envelope = errorResponse(CannotConnectText)
          IN /\ answer \in PingReplies
             /\ calls'[c].pc \in Positions \ {"idle", "ping"}
             /\ (answer.kind = "ok") = ~refused]_vars

\* a ping answered with status 500: the call returned the connectivity error
C29_Witness ==
  \E c \in Calls :
    /\ calls[c].pc = "done"
    /\ Len(calls[c].reqs) = 1
    /\ calls[c].reqs[1].op = "ping"
    /\ calls[c].reqs[1].reply = HttpError
    /\ calls[c].envelope = errorResponse(CannotConnectText)


\* the server has a credential: one persisted in the configuration file, or
\* one supplied through CIRCUITRY_ACCESS_KEY
HasCredential == loadConfig.accessKey # "" \/ envAccessKey # ""

\* C30: a call is refused by the configuration check exactly when the server
\* has neither a persisted credential nor one from the environment; with a
\* credential from the environment alone the call goes on to the ping.
C30_EnvironmentCredentialCounts ==
  [][\A c \in Calls :
       (calls[c].pc = "idle" /\ calls'[c].pc # "idle")
       => /\ (calls'[c].envelope = errorResponse(NotConfiguredText)) = ~HasCredential
          /\ HasCredential => (calls'[c].pc = "ping" /\ LastReq(calls'[c]).op = "ping")]_vars

(***************************************************************************)
(* The client as a library (index.ts): a program of any configuration      *)
(* obtains a client and runs the file operations, one at a time, against   *)
(* a Peer that answers in any way HTTP allows.                             *)
(***************************************************************************)
\* the configurations a process can start in: no file, a corrupted file, or
\* a JSON object holding any of the three fields
ConfigFiles ==
  {Absent, Corrupt} \cup
    {Stored(c) :
       c \in [eserverUrl : {Undefined, Str("http://file:3030")},
              accessKey : {Undefined, Str(""), Str("key")},
              configured : {Undefined, Bool(FALSE), Bool(TRUE)}]}

FileOps ==
  {"createCodeNodeFromFile", "createCodeNodesFromFiles", "readFile", "writeFile"}

ReadReplies == {NetFail, HttpError, HttpOk([content |-> Str("x")])}
WriteReplies == {NetFail, HttpError, HttpOk([success |-> Bool(TRUE)])}

FileReplies(op) ==
  CASE op = "createCodeNodeFromFile" -> CreateNodeReplies
    [] op = "createCodeNodesFromFiles" -> BatchReplies
    [] op = "readFile" -> ReadReplies
    [] OTHER -> WriteReplies

\* the file operation `op` on the Peer's answer r
FileResult(op, r) ==
  CASE op = "createCodeNodeFromFile" -> createCodeNodeFromFile(r)
    [] op = "createCodeNodesFromFiles" -> createCodeNodesFromFiles(r)
    [] op = "readFile" -> readFile(r)
    [] OTHER -> writeFile(r)

InitLibrary ==
  /\ configFile \in ConfigFiles
  /\ envAccessKey \in {"", "envkey"}
  /\ envEServerUrl \in {"", "http://env:3030"}
  /\ client = NoClient
  /\ fileCall = NoFileCall
  /\ connectionApproved = FALSE
  /\ calls = [c \in Calls |-> IdleCall]
  /\ InitChannel

\* getClient(), or new EServerClient(url, accessKey) with either argument
\* given or left out
Construct(url, accessKey) ==
  /\ ~client.built
  /\ client' = EServerClient(url, accessKey)
  /\ UNCHANGED fileCall

\* a file operation up to its fetch: the request goes to baseUrl with the
\* Authorization header of getHeaders()
FileRequest(op) ==
  /\ client.built
  /\ fileCall.pc = "idle"
  /\ fileCall' = [pc |-> "sent", op |-> op, url |-> client.baseUrl,
                   authorization |-> <<"Bearer ", client.accessKey>>,
                   reply |-> Unanswered, outcome |-> Unanswered]
  /\ UNCHANGED client

\* the fetch settles with the Peer's answer r and the operation ends
FileReply(r) ==
  /\ fileCall.pc = "sent"
  /\ r \in FileReplies(fileCall.op)
  /\ fileCall' = [fileCall EXCEPT !.pc = "settled", !.reply = r,
                                   !.outcome = FileResult(fileCall.op, r)]
  /\ UNCHANGED client

\* the caller has taken the outcome
FileDone ==
  /\ fileCall.pc = "settled"
  /\ fileCall' = NoFileCall
  /\ UNCHANGED client

Rest == UNCHANGED <<configFile, envAccessKey, envEServerUrl, connectionApproved,
                    calls, channelVars>>

NextLibrary ==
  \/ \E url \in {"", "http://arg:3030"} : \E accessKey \in {"", "argkey"} :
       Construct(url, accessKey) /\ Rest
  \/ \E op \in FileOps : FileRequest(op) /\ Rest
  \/ \E r \in ReadReplies \cup WriteReplies \cup CreateNodeReplies \cup BatchReplies :
       FileReply(r) /\ Rest
  \/ FileDone /\ Rest

SpecLibrary == InitLibrary /\ [][NextLibrary]_vars

(***************************************************************************)
(* C31.  The agent tools' requests.                                        *)
(***************************************************************************)
\* the requests of a call that went past the permission gate
RoutedReqs(call) == {i \in DOMAIN call.reqs : call.reqs[i].op \in RoutedOps}

\* a call that has left the permission step with the gate open and with
\* arguments the branch can destructure
PastGate(call) ==
  /\ call.pc \in {"remote", "done"}
  /\ call.args.t = "object"
  /\ \/ call.gate = "approved"
     \/ \E i \in DOMAIN call.reqs :
          /\ call.reqs[i].op = "getConnectionStatus"
          /\ getConnectionStatus(call.reqs[i].reply).approved

\* C31: an agent.createFlowchart call past the gate has sent the Peer exactly
\* one chat message, 'Create a <style> flowchart: <description>' when a
\* (non-empty) style is given and 'Create a flowchart: <description>' when
\* not, with context {intent: 'flowchart', style}; agent.chat has sent its
\* message and context as they came, and agent.poll its chatId; and none of
\* the three ever sends more than that one request.
C31_AgentToolsForward ==
  \A c \in Calls :
    LET call == calls[c]
        args == call.args
        sent == call.reqs[Len(call.reqs)]
    IN  call.name \in {"agent.chat", "agent.createFlowchart", "agent.poll"} =>
          /\ Cardinality(RoutedReqs(call)) <= 1
          /\ PastGate(call) =>
               /\ Cardinality(RoutedReqs(call)) = 1
               /\ call.name = "agent.createFlowchart" =>
                    /\ sent.op = "sendAgentChat"
                    /\ sent.arg.message =
                         IF args.v.style \in {Undefined, Str("")}
                         THEN <<"Create a flowchart: ", args.v.description.v>>
                         ELSE <<"Create a ", args.v.style.v, " flowchart: ",
                                args.v.description.v>>
                    /\ sent.arg.context =
                         Obj([intent |-> Str("flowchart"), style |-> args.v.style])
               /\ call.name = "agent.chat" =>
                    /\ sent.op = "sendAgentChat"
                    /\ sent.arg.message = <<args.v.message.v>>
                    /\ sent.arg.context = args.v.context
               /\ call.name = "agent.poll" =>
                    /\ sent.op = "pollAgentResponse"
                    /\ sent.arg.chatId = args.v.chatId

\* a styled flowchart request has gone out and been answered
C31_Witness ==
  \E c \in Calls :
    /\ calls[c].name = "agent.createFlowchart"
    /\ calls[c].pc = "done"
    /\ PastGate(calls[c])
    /\ calls[c].args.v.style = Str("simple")
    /\ LastReq(calls[c]).op = "sendAgentChat"

(***************************************************************************)
(* C32.  The file operations' failures.                                    *)
(***************************************************************************)
\* C32: a file operation (createCodeNodeFromFile, createCodeNodesFromFiles,
\* readFile, writeFile) that the Peer answered with a non-success status, or
\* whose request failed in transport, has ended with a thrown error and not
\* with a value.
C32_FileOperationsFailWithError ==
  fileCall.pc = "settled" /\ fileCall.reply.kind # "ok" => fileCall.outcome.throw

(***************************************************************************)
(* C33.  The environment overrides.                                        *)
(***************************************************************************)
\* the file holds a value for field f
Persisted(f) == configFile.disk = "json" /\ configFile.content[f].t # "undefined"

\* C33: getEServerUrl and getAccessKey return the environment override when
\* one is set; without one they return the value the file holds, and the
\* default of that field when the file holds none; and a client built
\* without arguments sends its requests to that URL with that key.
C33_EnvironmentOverridesFile ==
  /\ envEServerUrl # "" => getEServerUrl = envEServerUrl
  /\ envAccessKey # "" => getAccessKey = envAccessKey
  /\ envEServerUrl = "" /\ Persisted("eserverUrl") =>
       getEServerUrl = configFile.content.eserverUrl.v
  /\ envAccessKey = "" /\ Persisted("accessKey") =>
       getAccessKey = configFile.content.accessKey.v
  /\ envEServerUrl = "" /\ ~Persisted("eserverUrl") =>
       getEServerUrl = "http://localhost:3030"
  /\ envAccessKey = "" /\ ~Persisted("accessKey") => getAccessKey = ""
  /\ client.built =>
       /\ client.baseUrl \in {getEServerUrl, "http://arg:3030"}
       /\ client.accessKey \in {getAccessKey, "argkey"}
  /\ fileCall.pc # "idle" =>
       /\ fileCall.url = client.baseUrl
       /\ fileCall.authorization = <<"Bearer ", client.accessKey>>

\* a client built from an environment URL that differs from the file's has
\* sent a request
C33_Witness ==
  /\ envEServerUrl # ""
  /\ Persisted("eserverUrl")
  /\ envAccessKey = ""
  /\ Persisted("accessKey")
  /\ fileCall.pc = "settled"
  /\ fileCall.url = envEServerUrl
  /\ fileCall.authorization = <<"Bearer ", configFile.content.accessKey.v>>

(***************************************************************************)
(* C34.  Overlapping tool calls: the frontend sends a second request       *)
(* while the handler of the first is suspended at an await.                *)
(***************************************************************************)
OverlapCalls == 1 .. MaxOverlap

InitOverlap ==
  /\ configFile =
       Stored([eserverUrl |-> Str("http://file:3030"), accessKey |-> Str("key"),
               configured |-> Bool(TRUE)])
  /\ envAccessKey = ""
  /\ envEServerUrl = ""
  /\ client = EServerClient("", "")
  /\ fileCall = NoFileCall
  /\ connectionApproved = FALSE
  /\ calls = [c \in OverlapCalls |-> IdleCall]
  /\ InitChannel

NextOverlap ==
  \/ \E c \in OverlapCalls : StartCall(c) /\ UNCHANGED <<libraryVars, channelVars>>
  \/ \E c \in OverlapCalls : PingReply(c) /\ UNCHANGED <<libraryVars, channelVars>>
  \/ \E c \in OverlapCalls : GetStatusReply(c) /\ UNCHANGED <<libraryVars, channelVars>>
  \/ \E c \in OverlapCalls :
       RequestConnectionReply(c) /\ UNCHANGED <<libraryVars, channelVars>>
  \/ \E c \in OverlapCalls :
       GetConnectionStatusReply(c) /\ UNCHANGED <<libraryVars, channelVars>>
  \/ \E c \in OverlapCalls : RemoteReply(c) /\ UNCHANGED <<libraryVars, channelVars>>
  \/ \E c \in OverlapCalls : Retire(c) /\ UNCHANGED <<libraryVars, channelVars>>

SpecOverlap == InitOverlap /\ [][NextOverlap]_vars

\* C34: once connectionApproved is true no step of any tool call sets it
\* back to false, overlapping calls included.
C34_ApprovalNeverRevoked == [][connectionApproved => connectionApproved']_vars

(***************************************************************************)
(* C35.  Overlapping connects: connectWebSocket is invoked, by a caller or *)
(* by a reconnect timer, while an earlier socket object is still alive.    *)
(***************************************************************************)
LiveSockets == 1 .. MaxLive

InitSockets ==
  /\ configFile =
       Stored([eserverUrl |-> Str("http://file:3030"), accessKey |-> Str("key"),
               configured |-> Bool(TRUE)])
  /\ envAccessKey = ""
  /\ envEServerUrl = ""
  /\ client = EServerClient("", "")
  /\ fileCall = NoFileCall
  /\ connectionApproved = FALSE
  /\ calls = [c \in Calls |-> IdleCall]
  /\ InitChannelOver(LiveSockets)

\* connects, opens, closes, reconnect timers and disconnect over the socket
\* objects, and one call over the channel with its timer and its responses
NextSockets ==
  \/ ConnectWebSocket /\ Quiet
  \/ \E s \in LiveSockets : SocketOpen(s) /\ UNCHANGED closeLog /\ Quiet
  \/ \E s \in LiveSockets : SocketClose(s) /\ UNCHANGED closeLog /\ Quiet
  \/ \E d \in Delays : ReconnectTimerFire(d) /\ Quiet
  \/ Disconnect /\ Quiet
  \/ CallApi(FirstCall) /\ Quiet
  \/ ApiTimeoutFire(FirstCall) /\ Quiet
  \/ \E s \in LiveSockets :
       \E m \in {ApiResponse(id, [success |-> TRUE, result |-> Str("r"),
                                  error |-> Undefined]) : id \in RequestIds} :
         /\ Receive(s, m)
         /\ lastInbound' = m
         /\ UNCHANGED <<openLog, idleConnects, dispatchVars>>

SpecSockets == InitSockets /\ [][NextSockets]_vars

\* the socket objects that are connecting or open
Live == {s \in DOMAIN sockets : sockets[s] \in {"connecting", "open"}}

\* socket object s gets its close event
Closes(s) == sockets[s] # "free" /\ sockets'[s] = "free"

\* C35: every step leads to a state in which at most one socket is connecting
\* or open and wsConnected is true exactly when the handle's socket is open;
\* and the close event of a socket that is not the handle's leaves the handle
\* and the Connected flag as they were.
C35_OneSocketOwned ==
  [][/\ Cardinality(Live') <= 1
     /\ wsConnected' <=> (ws' # NoSocket /\ sockets'[ws'] = "open")
     /\ \A s \in DOMAIN sockets :
          Closes(s) /\ ws # NoSocket /\ s # ws =>
            ws' = ws /\ wsConnected' = wsConnected]_vars

(***************************************************************************)
(* C36.  The channel's calls and the pendingRequests map.                  *)
(***************************************************************************)
\* call k has an entry in pendingRequests
Tracked(k) == \E id \in RequestIds : pendingRequests[id] = k

\* C36: a call over the channel that has settled stays as it settled; a
\* call has an entry in pendingRequests exactly while it is in flight on the
\* channel and unsettled; and a response frame under a requestId that has
\* no entry (a late or a duplicate response) changes no call, no entry and
\* no timer.
C36_SettledOnceTrackedWhileUnsettled ==
  [][/\ \A k \in ApiCalls :
          /\ api[k].state \in {"resolved", "rejected"} => api'[k] = api[k]
          /\ Tracked(k)' <=> (api'[k].state = "pending" /\ api'[k].via = "ws")
     /\ \A m \in ResponseFrames :
          lastInbound' = m /\ pendingRequests[m.payload.requestId] = NoCall =>
            UNCHANGED <<api, pendingRequests, apiTimer>>]_vars

(***************************************************************************)
(* C37.  The bounds of the reconnect backoff.                              *)
(***************************************************************************)
\* the closes since the last open that scheduled a reconnect
ScheduledSinceOpen == {n \in DOMAIN closeLog : closeLog[n] # 0}

\* C37: reconnectAttempts stays within 0 .. 5; of the closes since the last
\* successful open at most 5 have scheduled a reconnect; and every delay
\* scheduled, and every timer pending, is one of 1000, 2000, 4000, 8000 and
\* 16000 ms.
C37_ReconnectBounded ==
  /\ reconnectAttempts \in 0 .. 5
  /\ Cardinality(ScheduledSinceOpen) <= 5
  /\ \A n \in ScheduledSinceOpen : closeLog[n] \in {1000, 2000, 4000, 8000, 16000}
  /\ \A d \in DOMAIN reconnectTimers :
       reconnectTimers[d] > 0 => d \in {1000, 2000, 4000, 8000, 16000}

\* five reconnects were scheduled since the last open and a sixth close
\* scheduled none
C37_Witness ==
  /\ reconnectAttempts = 5
  /\ maxReconnectAttempts = MaxReconnectAttempts
  /\ Cardinality(ScheduledSinceOpen) = 5
  /\ Len(closeLog) > 5
  /\ closeLog[Len(closeLog)] = 0

====
